---- MODULE Spec2Model ----
(***************************************************************************)
(* Run-contract lifecycle of utils/run_contract.py: the persisted contract *)
(* document (run, tasks, assets, verification, preflight), the operations  *)
(* init / record-produced / mark-task-* / preflight / finalize, the        *)
(* existence and corruption checks they call, and the per-folder           *)
(* partitioning and publication done by finalize.                          *)
(*                                                                         *)
(* Conventions.  A Python string that the code takes apart (a location) is *)
(* a sequence of one-character strings; the empty sequence stands for both *)
(* None and "" (the code only tests locations for truthiness).  Identifiers*)
(* (task ids, asset ids), statuses and reasons are atomic strings.  A      *)
(* tri-state (bool | None) is one of "true", "false", "null".  A timestamp *)
(* is the value of the clock `now` when the operation ran; NoTime is None. *)
(* A dict with no keys ({}) is the empty function << >>.                   *)
(*                                                                         *)
(* Files.  `contract` is the document whose text the file at the document  *)
(* path holds, `integrity` how much of that text: "whole", "partial" (a    *)
(* prefix, possibly empty: the file was opened for writing and not yet     *)
(* closed) or "mixed" (bytes of two writers).  Where one invocation runs   *)
(* at a time, it runs from its load to its rename in one step and the file *)
(* is always whole; SpecShared runs invocations side by side, step by step.*)
(***************************************************************************)
EXTENDS Integers, Sequences, FiniteSets, TLC

VARIABLES
    contract,   \* the persisted _run_contract.json document
    now,        \* the clock read by _utc_now_iso(); one tick per invocation
    lastOp,     \* the last invocation: command, arguments, exit code
    gcs,        \* uploads attempted by the last invocation: <<[dest, ok, ...]>>
    integrity,  \* how much of `contract` the file at the document path holds
    tmpfile,    \* the file _run_contract.json.tmp next to the document
    procs       \* the invocations running side by side, where each one stands

vars == <<contract, now, lastOp, gcs, integrity, tmpfile, procs>>

---------------------------------------------------------------------------
(* Bounds of the model *)

MaxOps == 2          \* invocations after init in one behaviour of Spec
MaxDeepOps == 3      \* invocations after init in one behaviour of SpecDeep
MaxLoadedOps == 2    \* invocations after init or load in one behaviour of SpecLoaded
MaxCallerOps == 2    \* invocations after init or load in one behaviour of SpecCaller

---------------------------------------------------------------------------
(* Python values *)

Null == "null"
T == "true"
F == "false"
TriOf(b) == IF b THEN T ELSE F

NoTime == 0
SCHEMA_VERSION == 1

\* error payloads of --error-json-file: none, the empty object, a real error
NoError == Null
EmptyError == "{}"
Boom == "{message: boom}"
ErrorPayloads == {NoError, EmptyError, Boom}
\* bool(error) for a dict or None
Truthy(error) == error \notin {NoError, EmptyError}

---------------------------------------------------------------------------
(* Strings as character sequences *)

StartsWith(s, p) == Len(s) >= Len(p) /\ SubSeq(s, 1, Len(p)) = p

RECURSIVE RStrip(_, _)
RStrip(s, c) ==
    IF Len(s) > 0 /\ s[Len(s)] = c THEN RStrip(SubSeq(s, 1, Len(s) - 1), c) ELSE s

\* while "//" in rest: rest = rest.replace("//", "/")
RECURSIVE CollapseSlashes(_)
CollapseSlashes(s) ==
    IF Len(s) < 2 THEN s
    ELSE IF s[1] = "/" /\ s[2] = "/" THEN CollapseSlashes(Tail(s))
    ELSE <<s[1]>> \o CollapseSlashes(Tail(s))

\* s.rfind(c) as a 1-based position, 0 when absent
RECURSIVE RFind(_, _)
RFind(s, c) ==
    IF Len(s) = 0 THEN 0
    ELSE IF s[Len(s)] = c THEN Len(s)
    ELSE RFind(SubSeq(s, 1, Len(s) - 1), c)

\* s.split(c)
RECURSIVE Split(_, _)
Split(s, c) ==
    IF \A i \in 1..Len(s) : s[i] # c THEN <<s>>
    ELSE LET p == CHOOSE i \in 1..Len(s) : s[i] = c /\ \A j \in 1..(i - 1) : s[j] # c
         IN  <<SubSeq(s, 1, p - 1)>> \o Split(SubSeq(s, p + 1, Len(s)), c)

\* c.join(parts)
RECURSIVE Join(_, _)
Join(parts, c) ==
    IF Len(parts) = 0 THEN << >>
    ELSE IF Len(parts) = 1 THEN parts[1]
    ELSE parts[1] \o <<c>> \o Join(Tail(parts), c)

\* code points of the characters the model uses
Ord(c) ==
    CASE c = "*" -> 42 [] c = "/" -> 47 [] c = ":" -> 58 [] c = "?" -> 63
      [] c = "b" -> 98 [] c = "d" -> 100 [] c = "e" -> 101 [] c = "f" -> 102
      [] c = "g" -> 103 [] c = "h" -> 104 [] c = "o" -> 111 [] c = "p" -> 112
      [] c = "s" -> 115 [] c = "t" -> 116 [] c = "w" -> 119 [] c = "x" -> 120

\* a < b for Python strings
RECURSIVE StrLess(_, _)
StrLess(a, b) ==
    IF Len(b) = 0 THEN FALSE
    ELSE IF Len(a) = 0 THEN TRUE
    ELSE IF a[1] # b[1] THEN Ord(a[1]) < Ord(b[1])
    ELSE StrLess(Tail(a), Tail(b))

\* sorted(S) for a set of strings
RECURSIVE SortStrs(_)
SortStrs(S) ==
    IF S = {} THEN << >>
    ELSE LET m == CHOOSE x \in S : \A y \in S \ {x} : StrLess(x, y)
         IN  <<m>> \o SortStrs(S \ {m})

\* the identifiers of the model in Python's string order
IdOrder == <<"", "a1", "a2", "t1", "t2", "unassigned">>
IdRank(id) == CHOOSE i \in 1..Len(IdOrder) : IdOrder[i] = id

\* sorted(set(ids))
RECURSIVE SortIds(_)
SortIds(S) ==
    IF S = {} THEN << >>
    ELSE LET m == CHOOSE x \in S : \A y \in S : IdRank(x) <= IdRank(y)
         IN  <<m>> \o SortIds(S \ {m})

Range(s) == {s[i] : i \in 1..Len(s)}

\* a list comprehension as a list value
List(f) == SubSeq(f, 1, Len(f))

\* list.sort(key=lambda rec: str(rec[key])), a stable sort
RECURSIVE SortRecs(_, _)
SortRecs(recs, key) ==
    IF Len(recs) = 0 THEN << >>
    ELSE LET m == CHOOSE i \in 1..Len(recs) :
                      /\ \A j \in 1..Len(recs) : IdRank(recs[i][key]) <= IdRank(recs[j][key])
                      /\ \A j \in 1..(i - 1) : recs[j][key] # recs[i][key]
         IN  <<recs[m]>> \o
             SortRecs(SubSeq(recs, 1, m - 1) \o SubSeq(recs, m + 1, Len(recs)), key)

---------------------------------------------------------------------------
(* Locations *)

GS == <<"g", "s", ":", "/", "/">>
Wildcards == {"*", "?", "[", "]"}

UriF == GS \o <<"b", "/", "d", "/", "f">>              \* gs://b/d/f
UriG == GS \o <<"b", "/", "/", "d", "/", "g">>         \* gs://b//d/g
UriE == GS \o <<"b", "/", "e", "/", "f">>              \* gs://b/e/f
UriBucket == GS \o <<"b">>                             \* gs://b
UriHttp == <<"h", ":", "/", "/", "b", "/", "f">>       \* h://b/f, not object storage
GlobD == GS \o <<"b", "/", "d", "/", "*">>             \* gs://b/d/*
GlobBucket == GS \o <<"b", "*", "/", "x">>             \* gs://b*/x
PathX == <<"/", "w", "/", "x">>                        \* /w/x
PathRel == <<"x">>                                     \* x, relative to the cwd /w
LGlob == <<"/", "w", "/", "*">>                        \* /w/*
OutRoot == GS \o <<"b", "/", "o", "/">>                \* gs://b/o/
Cwd == <<"/", "w">>

NoLoc == << >>

\* _normalize_local_path: the paths of the model hold no symlink, "~" or ".."
_normalize_local_path(path) ==
    IF StartsWith(path, <<"/">>) THEN path ELSE Cwd \o <<"/">> \o path

_normalize_gs_uri(uri) ==
    IF ~StartsWith(uri, GS) THEN uri
    ELSE GS \o RStrip(CollapseSlashes(SubSeq(uri, Len(GS) + 1, Len(uri))), "/")

HasWildcard(part) == \E i \in 1..Len(part) : part[i] \in Wildcards

\* the leading parts of a glob before the first part holding a wildcard
RECURSIVE FolderParts(_)
FolderParts(parts) ==
    IF Len(parts) = 0 \/ HasWildcard(parts[1]) THEN << >>
    ELSE <<parts[1]>> \o FolderParts(Tail(parts))

NoFolder == << >>

\* None is NoFolder: no folder the code returns is the empty string
_gcs_folder(asset) ==
    IF asset.uri # NoLoc /\ StartsWith(asset.uri, GS)
    THEN LET normalized == _normalize_gs_uri(asset.uri)
             idx == RFind(normalized, "/") - 1
         IN  IF idx > Len(GS) THEN SubSeq(normalized, 1, idx) ELSE NoFolder
    ELSE IF asset.gcs_glob # NoLoc /\ StartsWith(asset.gcs_glob, GS)
    THEN LET normalized == _normalize_gs_uri(asset.gcs_glob)
             folder_parts == FolderParts(Split(normalized, "/"))
         IN  IF Len(folder_parts) > 2 THEN RStrip(Join(folder_parts, "/"), "/")
             ELSE NoFolder
    ELSE NoFolder

\* the dict folder -> list of assets, as a function on the folders found
_group_assets_by_folder(assets) ==
    LET folders == {_gcs_folder(assets[i]) : i \in 1..Len(assets)} \ {NoFolder}
    IN  [folder \in folders |->
            SelectSeq(assets, LAMBDA asset : _gcs_folder(asset) = folder)]

---------------------------------------------------------------------------
(* What the storage backends answer.  One probe per asset and pass:        *)
(*   w     what the location check finds: "present", "absent",             *)
(*         "no_backend" (gsutil not installed), "backend_error" (gsutil    *)
(*         exits non-zero for another reason than a missing object)        *)
(*   meta  what reading the asset as JSON gives                            *)

MetaContents ==
    {"unreadable", "no_marker", "corrupt_true", "corrupt_false", "success_true",
     "success_false"}

\* what `gsutil ls -r pattern` / glob.glob(pattern) print for a pattern that matches
Listing(pattern) ==
    IF pattern = GlobD THEN {UriF, GS \o <<"b", "/", "d", "/", "g">>}
    ELSE IF StartsWith(pattern, GS) THEN {UriE}
    ELSE {PathX}

\* a listing that takes every failure of `gsutil ls` for "matched no objects"
_gsutil_ls_failure_is_empty(pattern, w) ==
    IF w = "no_backend" THEN [matches |-> << >>, failed |-> TRUE, reason |-> "gsutil_unavailable"]
    ELSE IF w \in {"absent", "no_match", "backend_error"}
    THEN [matches |-> << >>, failed |-> FALSE, reason |-> "gcs_glob"]
    ELSE [matches |-> SortStrs({_normalize_gs_uri(item) : item \in Listing(pattern)}),
          failed |-> FALSE, reason |-> "gcs_glob"]

\* (matches | None, reason).  "absent": the listing ends with exit code 0 and
\* prints no object; "no_match": it ends with a non-zero exit code and
\* "matched no objects" on stderr; "backend_error": any other non-zero exit
_gsutil_ls(pattern, w) ==
    IF w = "no_backend" THEN [matches |-> << >>, failed |-> TRUE, reason |-> "gsutil_unavailable"]
    ELSE IF w = "backend_error" THEN [matches |-> << >>, failed |-> TRUE, reason |-> "gsutil_ls_failed"]
    ELSE IF w \in {"absent", "no_match"}
    THEN [matches |-> << >>, failed |-> FALSE, reason |-> "gcs_glob"]
    ELSE [matches |-> SortStrs({_normalize_gs_uri(item) : item \in Listing(pattern)}),
          failed |-> FALSE, reason |-> "gcs_glob"]

_gsutil_exists(uri, w) ==
    IF w = "no_backend" THEN [exists |-> Null, reason |-> "gsutil_unavailable"]
    ELSE IF w = "present" THEN [exists |-> T, reason |-> "gcs_uri"]
    ELSE [exists |-> F, reason |-> "gcs_uri"]

\* a gs:// uri whose backend gave no answer taken for an absent object
UriChecked_no_answer_is_absent(normalized_uri, r) ==
    [exists |-> IF r.exists = T THEN T ELSE F, reason |-> r.reason,
     matched |-> IF r.exists = T THEN <<normalized_uri>> ELSE << >>]

\* the (exists, reason, matched) of a gs:// uri, from what _gsutil_exists said
UriChecked(normalized_uri, r) ==
    [exists |-> r.exists, reason |-> r.reason,
     matched |-> IF r.exists = T THEN <<normalized_uri>> ELSE << >>]

\* the (exists, reason, matched) of a local_glob, from the sorted matches
GlobChecked(matches) ==
    [exists |-> TriOf(Len(matches) > 0), reason |-> "local_glob", matched |-> matches]

\* the (exists, reason, matched) of a gcs_glob, from what _gsutil_ls said
ListingChecked(r) ==
    IF r.failed THEN [exists |-> Null, reason |-> r.reason, matched |-> << >>]
    ELSE [exists |-> TriOf(Len(r.matches) > 0), reason |-> r.reason, matched |-> r.matches]

_asset_exists(asset, w) ==
    IF asset.local_path # NoLoc
    THEN [exists |-> TriOf(w = "present"), reason |-> "local_path",
          matched |-> IF w = "present"
                      THEN <<_normalize_local_path(asset.local_path)>> ELSE << >>]
    ELSE IF asset.uri # NoLoc /\ StartsWith(asset.uri, GS)
    THEN UriChecked(_normalize_gs_uri(asset.uri), _gsutil_exists(asset.uri, w))
    ELSE IF asset.local_glob # NoLoc
    THEN GlobChecked(IF w = "present"
                     THEN SortStrs({_normalize_local_path(path) :
                                        path \in Listing(asset.local_glob)})
                     ELSE << >>)
    ELSE IF asset.gcs_glob # NoLoc
    THEN ListingChecked(_gsutil_ls(asset.gcs_glob, w))
    ELSE [exists |-> Null, reason |-> "no_location", matched |-> << >>]

\* the answers the backends can give for the location _asset_exists checks
Outcomes(asset) ==
    IF asset.local_path # NoLoc THEN {"present", "absent"}
    ELSE IF asset.uri # NoLoc /\ StartsWith(asset.uri, GS)
    THEN {"present", "absent", "no_backend", "backend_error"}
    ELSE IF asset.local_glob # NoLoc THEN {"present", "absent"}
    ELSE IF asset.gcs_glob # NoLoc
    THEN {"present", "absent", "no_backend", "backend_error"}
    ELSE {"absent"}

\* the content over max_bytes read as nothing
Sized(meta) == IF meta = "oversized" THEN "unreadable" ELSE meta

\* what json.loads returns for the content, None as "unreadable"; only a
\* local_path or a gs:// uri is ever read
_read_json_from_asset(asset, meta) ==
    IF asset.local_path # NoLoc THEN Sized(meta)
    ELSE IF asset.uri # NoLoc /\ StartsWith(asset.uri, GS) THEN Sized(meta)
    ELSE "unreadable"

Probes(asset) ==
    UNION {{[w |-> w, meta |-> m] :
              m \in IF asset.kind = "metadata" /\ w = "present" THEN MetaContents
                    ELSE {"unreadable"}} :
           w \in Outcomes(asset)}

\* one probe per asset of the list
RECURSIVE Envs(_)
Envs(assets) ==
    IF Len(assets) = 0 THEN {<< >>}
    ELSE {<<p>> \o rest : p \in Probes(assets[1]), rest \in Envs(Tail(assets))}

---------------------------------------------------------------------------
(* The contract document *)

TaskIds == {"t1", "t2"}
AssetIds == {"a1", "a2"}

TerminalStatuses ==
    {"succeeded", "failed", "succeeded_with_missing_outputs",
     "succeeded_with_corrupt_outputs", "succeeded_with_unverified_outputs"}

\* an entry of expected_assets / expected_inputs with an explicit asset_id
Declared(asset_id, kind, required, field, value) ==
    [asset_id |-> asset_id, kind |-> kind, required |-> required,
     uri |-> IF field = "uri" THEN value ELSE NoLoc,
     local_path |-> IF field = "local_path" THEN value ELSE NoLoc,
     local_glob |-> IF field = "local_glob" THEN value ELSE NoLoc,
     gcs_glob |-> IF field = "gcs_glob" THEN value ELSE NoLoc]

\* task_record of _normalize_tasks_and_assets
TaskRecord(task_id) ==
    [task_id |-> task_id, status |-> "expected", started_at |-> NoTime,
     finished_at |-> NoTime, error |-> NoError, asset_ids |-> << >>]

\* asset_record of _normalize_tasks_and_assets
AssetRecord(asset_raw, task_id, role) ==
    [asset_id |-> asset_raw.asset_id, task_id |-> task_id, role |-> role,
     kind |-> IF asset_raw.kind = "" THEN "output" ELSE asset_raw.kind,
     required |-> asset_raw.required,
     uri |-> asset_raw.uri, local_path |-> asset_raw.local_path,
     local_glob |-> asset_raw.local_glob, gcs_glob |-> asset_raw.gcs_glob,
     expected |-> TRUE, produced |-> FALSE, status |-> "expected",
     exists |-> Null, exists_reason |-> Null,
     corrupt |-> Null, corrupt_reason |-> Null,
     error |-> NoError, matched_outputs |-> << >>]

\* role_tagged: the outputs of a task definition, then its inputs
RoleTagged(task_raw) ==
    [i \in 1..(Len(task_raw.expected_assets) + Len(task_raw.expected_inputs)) |->
        IF i <= Len(task_raw.expected_assets)
        THEN [raw |-> task_raw.expected_assets[i], role |-> "output"]
        ELSE [raw |-> task_raw.expected_inputs[i - Len(task_raw.expected_assets)],
              role |-> "input"]]

\* the loop over tasks_raw: [ok, tasks, assets]; ok is FALSE where the code
\* raises ValueError (an empty or duplicate task_id, a duplicate asset_id)
RECURSIVE NormalizeLoop(_, _, _)
NormalizeLoop(tasks_raw, tasks, assets) ==
    IF Len(tasks_raw) = 0 THEN [ok |-> TRUE, tasks |-> tasks, assets |-> assets]
    ELSE LET task_raw == tasks_raw[1]
             tagged == RoleTagged(task_raw)
             ids == [i \in 1..Len(tagged) |-> tagged[i].raw.asset_id]
             seen_assets == {assets[i].asset_id : i \in 1..Len(assets)}
             seen_tasks == {tasks[i].task_id : i \in 1..Len(tasks)}
             duplicate ==
                 \/ \E i \in 1..Len(ids) : ids[i] \in seen_assets
                 \/ \E i, j \in 1..Len(ids) : i < j /\ ids[i] = ids[j]
         IN  IF task_raw.task_id = "" \/ task_raw.task_id \in seen_tasks \/ duplicate
             THEN [ok |-> FALSE, tasks |-> << >>, assets |-> << >>]
             ELSE NormalizeLoop(
                    Tail(tasks_raw),
                    Append(tasks, [TaskRecord(task_raw.task_id) EXCEPT !.asset_ids = ids]),
                    assets \o [i \in 1..Len(tagged) |->
                                 AssetRecord(tagged[i].raw, task_raw.task_id, tagged[i].role)])

_normalize_tasks_and_assets(tasks_raw) ==
    LET r == NormalizeLoop(tasks_raw, << >>, << >>)
    IN  [ok |-> r.ok,
         tasks |-> SortRecs(r.tasks, "task_id"),
         assets |-> SortRecs(r.assets, "asset_id")]

_new_contract(tasks, assets, output_location) ==
    [schema_version |-> SCHEMA_VERSION,
     run |-> [status |-> "STARTED", completed_at |-> NoTime,
              output_location |-> output_location],
     tasks |-> tasks,
     assets |-> assets,
     verification |-> << >>,
     preflight |-> << >>]

_task_ids(c) == {c.tasks[i].task_id : i \in 1..Len(c.tasks)}
_asset_ids(c) == {c.assets[i].asset_id : i \in 1..Len(c.assets)}

\* position of the first task / asset with that id, 0 when there is none
TaskPos(tasks, task_id) ==
    IF \E i \in 1..Len(tasks) : tasks[i].task_id = task_id
    THEN CHOOSE i \in 1..Len(tasks) :
            tasks[i].task_id = task_id /\ \A j \in 1..(i - 1) : tasks[j].task_id # task_id
    ELSE 0

AssetPos(assets, asset_id) ==
    IF \E i \in 1..Len(assets) : assets[i].asset_id = asset_id
    THEN CHOOSE i \in 1..Len(assets) :
            assets[i].asset_id = asset_id /\ \A j \in 1..(i - 1) : assets[j].asset_id # asset_id
    ELSE 0

\* _asset_index: the asset a dict keyed by asset_id holds for an id (the last one)
IndexedPos(assets, asset_id) ==
    IF \E i \in 1..Len(assets) : assets[i].asset_id = asset_id
    THEN CHOOSE i \in 1..Len(assets) :
            assets[i].asset_id = asset_id
            /\ \A j \in (i + 1)..Len(assets) : assets[j].asset_id # asset_id
    ELSE 0

\* _ensure_task that does not look for the task first
_ensure_task_always_new(tasks, task_id, t) ==
    Append(tasks, [task_id |-> task_id, status |-> "running", started_at |-> t,
                   finished_at |-> NoTime, error |-> NoError, asset_ids |-> << >>])

\* the tasks after _ensure_task(contract, task_id) called at time t
_ensure_task(tasks, task_id, t) ==
    IF TaskPos(tasks, task_id) # 0 THEN tasks
    ELSE Append(tasks, [task_id |-> task_id, status |-> "running", started_at |-> t,
                        finished_at |-> NoTime, error |-> NoError, asset_ids |-> << >>])

\* the assets after _ensure_asset(contract, asset_id, task_id)
_ensure_asset(assets, asset_id, task_id) ==
    IF AssetPos(assets, asset_id) # 0 THEN assets
    ELSE Append(assets,
            [asset_id |-> asset_id, task_id |-> task_id, role |-> "output",
             kind |-> "output", required |-> TRUE,
             uri |-> NoLoc, local_path |-> NoLoc, local_glob |-> NoLoc, gcs_glob |-> NoLoc,
             expected |-> FALSE, produced |-> TRUE, status |-> "produced",
             exists |-> Null, exists_reason |-> Null,
             corrupt |-> Null, corrupt_reason |-> Null,
             error |-> NoError, matched_outputs |-> << >>])

---------------------------------------------------------------------------
(* set-task-status and record-produced *)

\* _set_task_status that fails the assets of every task, not the listed ones
_set_task_status_all(c, task_id, status, error, t) ==
    LET tasks == _ensure_task(c.tasks, task_id, t)
        p == TaskPos(tasks, task_id)
        task == tasks[p]
        marked == [task EXCEPT
                     !.started_at = IF status = "running" /\ @ = NoTime THEN t ELSE @,
                     !.finished_at = IF status \in TerminalStatuses THEN t ELSE @,
                     !.status = status,
                     !.error = IF error # NoError THEN error ELSE @]
        assets == [i \in 1..Len(c.assets) |->
                     IF status = "failed"
                     THEN [c.assets[i] EXCEPT
                             !.status = "failed",
                             !.error = IF error # NoError THEN error ELSE @]
                     ELSE c.assets[i]]
    IN  [c EXCEPT !.tasks = [tasks EXCEPT ![p] = marked], !.assets = assets]

\* the contract after _set_task_status(contract, task_id, status, error) at time t
_set_task_status(c, task_id, status, error, t) ==
    LET tasks == _ensure_task(c.tasks, task_id, t)
        p == TaskPos(tasks, task_id)
        task == tasks[p]
        marked == [task EXCEPT
                     !.started_at = IF status = "running" /\ @ = NoTime THEN t ELSE @,
                     !.finished_at = IF status \in TerminalStatuses THEN t ELSE @,
                     !.status = status,
                     !.error = IF error # NoError THEN error ELSE @]
        listed == Range(task.asset_ids)
        assets == [i \in 1..Len(c.assets) |->
                     IF /\ status = "failed"
                        /\ c.assets[i].asset_id \in listed
                        /\ i = IndexedPos(c.assets, c.assets[i].asset_id)
                     THEN [c.assets[i] EXCEPT
                             !.status = "failed",
                             !.error = IF error # NoError THEN error ELSE @]
                     ELSE c.assets[i]]
    IN  [c EXCEPT !.tasks = [tasks EXCEPT ![p] = marked], !.assets = assets]

\* _parse_bool(raw, default) for the raw values the model passes
_parse_bool(raw, default) ==
    IF raw = Null THEN default
    ELSE IF raw \in {"1", "true", "yes", "y", "on"} THEN TRUE
    ELSE IF raw \in {"0", "false", "no", "n", "off"} THEN FALSE
    ELSE default

Or(a, b) == IF a # NoLoc THEN a ELSE b

\* _cmd_record_produced with an explicit --asset-id and no --extra-json-file:
\* [rc, contract]; rc 1 is the ValueError of an empty --task-id, nothing written
_cmd_record_produced(c, args, t) ==
    IF args.task_id = "" THEN [rc |-> 1, contract |-> c]
    ELSE
    LET tasks == _ensure_task(c.tasks, args.task_id, t)
        p == TaskPos(tasks, args.task_id)
        started == [tasks[p] EXCEPT
                      !.started_at = IF @ = NoTime THEN t ELSE @,
                      !.status = IF @ \in {"expected", ""} THEN "running" ELSE @]
        assets == _ensure_asset(c.assets, args.asset_id, args.task_id)
        q == AssetPos(assets, args.asset_id)
        asset == [assets[q] EXCEPT
                    !.task_id = args.task_id,
                    !.kind = IF args.kind # "" THEN args.kind
                             ELSE IF @ # "" THEN @ ELSE "output",
                    !.required = _parse_bool(args.required, @),
                    !.uri = Or(args.uri, @),
                    !.local_path = Or(args.local_path, @),
                    !.local_glob = Or(args.local_glob, @),
                    !.gcs_glob = Or(args.gcs_glob, @),
                    !.produced = TRUE,
                    !.status = "produced"]
        task == [started EXCEPT
                   !.asset_ids = SortIds(Range(@) \cup {args.asset_id})]
    IN  [rc |-> 0,
         contract |-> [c EXCEPT !.tasks = [tasks EXCEPT ![p] = task],
                                !.assets = [assets EXCEPT ![q] = asset]]]

_cmd_mark_task(c, task_id, status, error, t) ==
    [rc |-> 0, contract |-> _set_task_status(c, task_id, status, error, t)]

---------------------------------------------------------------------------
(* preflight *)

MatchedLimit == 200
Take(seq, n) == IF Len(seq) <= n THEN seq ELSE SubSeq(seq, 1, n)

HasLocation(asset) ==
    asset.uri # NoLoc \/ asset.local_path # NoLoc
        \/ asset.local_glob # NoLoc \/ asset.gcs_glob # NoLoc

\* the body of the loop of _cmd_preflight for one input asset, r being what
\* _asset_exists returned
PreflightChecked(asset, r) ==
    [asset EXCEPT
       !.exists = r.exists,
       !.exists_reason = r.reason,
       !.matched_outputs = IF Len(r.matched) > 0 THEN Take(r.matched, MatchedLimit) ELSE @,
       !.status = IF r.exists = T THEN "ok"
                  ELSE IF r.exists = F THEN "missing"
                  ELSE "unknown"]

PreflightAsset(asset, probe) == PreflightChecked(asset, _asset_exists(asset, probe.w))

InputPositions(assets) == {i \in 1..Len(assets) : assets[i].role = "input"}

\* asset ids of the assets at the positions P, in list order
IdsAt(assets, P) ==
    [k \in 1..Cardinality(P) |->
        assets[CHOOSE i \in P : Cardinality({j \in P : j <= i}) = k].asset_id]

\* a preflight loop over all the assets, the outputs too
PreflightLoop_all(assets, env) ==
    List([i \in 1..Len(assets) |-> PreflightAsset(assets[i], env[i])])

\* the loop of _cmd_preflight over the assets
PreflightLoop(assets, env) ==
    List([i \in 1..Len(assets) |->
            IF assets[i].role = "input" THEN PreflightAsset(assets[i], env[i])
            ELSE assets[i]])

\* the report, the write and the exit code of _cmd_preflight, assets being the
\* list after the loop
PreflightReport(c, assets, strict, t) ==
    LET inputs == InputPositions(assets)
        missing_required ==
            IdsAt(assets, {i \in inputs : assets[i].exists = F /\ assets[i].required})
        missing_optional ==
            IdsAt(assets, {i \in inputs : assets[i].exists = F /\ ~assets[i].required})
        report == [checked_at |-> t,
                   total_inputs |-> Cardinality(inputs),
                   ok |-> Cardinality({i \in inputs : assets[i].exists = T}),
                   missing_required |-> missing_required,
                   missing_required_count |-> Len(missing_required),
                   missing_optional |-> missing_optional,
                   missing_optional_count |-> Len(missing_optional)]
    IN  [rc |-> IF strict /\ Len(missing_required) > 0 THEN 2 ELSE 0,
         contract |-> [c EXCEPT !.assets = assets, !.preflight = report]]

\* _cmd_preflight without --upload-gcs-dir; env holds one probe per asset, of
\* which only those of input assets are used: [rc, contract]
_cmd_preflight(c, env, strict, t) ==
    PreflightReport(c, PreflightLoop(c.assets, env), strict, t)

\* the probes a preflight pass can see: real ones for the input assets
RECURSIVE PreflightEnvs(_)
PreflightEnvs(assets) ==
    IF Len(assets) = 0 THEN {<< >>}
    ELSE {<<p>> \o rest :
            p \in IF assets[1].role = "input"
                  THEN {[w |-> w, meta |-> "unreadable"] : w \in Outcomes(assets[1])}
                  ELSE {[w |-> "absent", meta |-> "unreadable"]},
            rest \in PreflightEnvs(Tail(assets))}

---------------------------------------------------------------------------
(* finalize: task references, asset pass, task rollup *)

RECURSIVE RepairRefs(_, _, _, _)

\* no repair: the lists as they were loaded
RepairRefs_skipped(tasks, assets, i, t) ==
    [tasks |-> tasks, assets |-> assets]

\* "Ensure task references are consistent": the loop over the assets from
\* position i on, at time t: [tasks, assets]
RepairRefs(tasks, assets, i, t) ==
    IF i > Len(assets) THEN [tasks |-> tasks, assets |-> assets]
    ELSE LET aid == assets[i].asset_id
             tid == IF assets[i].task_id = "" THEN "unassigned" ELSE assets[i].task_id
             ensured == _ensure_task(tasks, tid, t)
             p == TaskPos(ensured, tid)
             asset_ids == ensured[p].asset_ids
             listed == IF aid # "" /\ aid \notin Range(asset_ids)
                       THEN [ensured EXCEPT
                               ![p].asset_ids = SortIds(Range(asset_ids) \cup {aid})]
                       ELSE ensured
         IN  RepairRefs(listed, [assets EXCEPT ![i].task_id = tid], i + 1, t)

\* a corruption audit that keeps the value of the pass before when it does
\* not read the asset
AuditCorruption_keeps(asset, exists, probe, audit_corruption) ==
    IF audit_corruption /\ exists = T /\ asset.kind = "metadata"
    THEN LET meta == _read_json_from_asset(asset, probe.meta)
         IN  IF meta = "corrupt_true" THEN [corrupt |-> T, reason |-> "metadata.corrupt"]
             ELSE IF meta = "corrupt_false" THEN [corrupt |-> F, reason |-> "metadata.corrupt"]
             ELSE IF meta = "success_true" THEN [corrupt |-> F, reason |-> "metadata.success"]
             ELSE IF meta = "success_false" THEN [corrupt |-> T, reason |-> "metadata.success"]
             ELSE [corrupt |-> Null, reason |-> Null]
    ELSE [corrupt |-> asset.corrupt, reason |-> asset.corrupt_reason]

\* a corruption audit that takes content it cannot use for corrupt content
AuditCorruption_strict(asset, exists, probe, audit_corruption) ==
    IF audit_corruption /\ exists = T /\ asset.kind = "metadata"
    THEN LET meta == _read_json_from_asset(asset, probe.meta)
         IN  IF meta = "corrupt_true" THEN [corrupt |-> T, reason |-> "metadata.corrupt"]
             ELSE IF meta = "corrupt_false" THEN [corrupt |-> F, reason |-> "metadata.corrupt"]
             ELSE IF meta = "success_true" THEN [corrupt |-> F, reason |-> "metadata.success"]
             ELSE IF meta = "success_false" THEN [corrupt |-> T, reason |-> "metadata.success"]
             ELSE [corrupt |-> T, reason |-> "metadata.unreadable"]
    ELSE [corrupt |-> Null, reason |-> Null]

\* the corruption audit of one asset: [corrupt, reason]
AuditCorruption(asset, exists, probe, audit_corruption) ==
    IF audit_corruption /\ exists = T /\ asset.kind = "metadata"
    THEN LET meta == _read_json_from_asset(asset, probe.meta)
         IN  IF meta = "corrupt_true" THEN [corrupt |-> T, reason |-> "metadata.corrupt"]
             ELSE IF meta = "corrupt_false" THEN [corrupt |-> F, reason |-> "metadata.corrupt"]
             ELSE IF meta = "success_true" THEN [corrupt |-> F, reason |-> "metadata.success"]
             ELSE IF meta = "success_false" THEN [corrupt |-> T, reason |-> "metadata.success"]
             ELSE [corrupt |-> Null, reason |-> Null]
    ELSE [corrupt |-> Null, reason |-> Null]

\* the chain with its first two branches in the other order
AssetStatus_missing_first(asset, exists, corrupt) ==
    IF exists = F /\ HasLocation(asset) THEN "missing"
    ELSE IF Truthy(asset.error) THEN "failed"
    ELSE IF corrupt = T THEN "corrupt"
    ELSE IF exists = T THEN "ok"
    ELSE IF exists = Null /\ HasLocation(asset) THEN "unknown"
    ELSE IF asset.produced THEN "produced" ELSE "expected"

\* the chain with an absent optional asset taken for an unverified one
AssetStatus_optional_unverified(asset, exists, corrupt) ==
    IF Truthy(asset.error) THEN "failed"
    ELSE IF exists = F /\ HasLocation(asset)
         THEN (IF asset.required THEN "missing" ELSE "unknown")
    ELSE IF corrupt = T THEN "corrupt"
    ELSE IF exists = T THEN "ok"
    ELSE IF exists = Null /\ HasLocation(asset) THEN "unknown"
    ELSE IF asset.produced THEN "produced" ELSE "expected"

\* the if/elif chain of _cmd_finalize that sets asset["status"]
AssetStatus(asset, exists, corrupt) ==
    IF Truthy(asset.error) THEN "failed"
    ELSE IF exists = F /\ HasLocation(asset) THEN "missing"
    ELSE IF corrupt = T THEN "corrupt"
    ELSE IF exists = T THEN "ok"
    ELSE IF exists = Null /\ HasLocation(asset) THEN "unknown"
    ELSE IF asset.produced THEN "produced" ELSE "expected"

\* known locations without what a glob matched
KnownLocations_declared_only(asset, r) ==
    IF r.exists # T THEN {}
    ELSE (IF asset.local_path # NoLoc THEN {_normalize_local_path(asset.local_path)} ELSE {})
         \cup (IF asset.uri # NoLoc THEN {_normalize_gs_uri(asset.uri)} ELSE {})

\* locations the asset adds to known_existing_locations, r being what
\* _asset_exists returned
KnownLocations(asset, r) ==
    IF r.exists # T THEN {}
    ELSE (IF asset.local_path # NoLoc THEN {_normalize_local_path(asset.local_path)} ELSE {})
         \cup (IF asset.uri # NoLoc THEN {_normalize_gs_uri(asset.uri)} ELSE {})
         \cup {IF StartsWith(r.matched[k], GS) THEN _normalize_gs_uri(r.matched[k])
               ELSE _normalize_local_path(r.matched[k]) : k \in 1..Len(r.matched)}

\* the body of the asset loop of _cmd_finalize for one asset, r being what
\* _asset_exists returned: the asset and what it adds to known_existing_locations
FinalizeChecked(asset, probe, audit_corruption, r) ==
    LET a == AuditCorruption(asset, r.exists, probe, audit_corruption)
    IN  [asset |->
            [asset EXCEPT
               !.exists = r.exists,
               !.exists_reason = r.reason,
               !.matched_outputs =
                   IF Len(r.matched) > 0 THEN Take(r.matched, MatchedLimit) ELSE @,
               !.corrupt = a.corrupt,
               !.corrupt_reason = a.reason,
               !.status = AssetStatus(asset, r.exists, a.corrupt)],
         known |-> KnownLocations(asset, r)]

FinalizeAsset(asset, probe, audit_corruption) ==
    FinalizeChecked(asset, probe, audit_corruption, _asset_exists(asset, probe.w))

\* statuses of all the assets a task lists, required or not
RequiredStatuses_all(task, assets) ==
    {assets[IndexedPos(assets, aid)].status :
        aid \in {x \in Range(task.asset_ids) : IndexedPos(assets, x) # 0}}

\* statuses of the required assets a task lists, looked up through asset_map
RequiredStatuses(task, assets) ==
    {assets[IndexedPos(assets, aid)].status :
        aid \in {x \in Range(task.asset_ids) :
                    /\ IndexedPos(assets, x) # 0
                    /\ assets[IndexedPos(assets, x)].required}}

\* the rollup without its first branch: a failed task is rolled up like any other
TaskRollup_forgetful(task, assets) ==
    LET existing_status == task.status
        required_statuses == RequiredStatuses(task, assets)
    IN  IF required_statuses # {}
        THEN IF "failed" \in required_statuses THEN "failed"
             ELSE IF "missing" \in required_statuses THEN "succeeded_with_missing_outputs"
             ELSE IF "corrupt" \in required_statuses THEN "succeeded_with_corrupt_outputs"
             ELSE IF "unknown" \in required_statuses THEN "succeeded_with_unverified_outputs"
             ELSE IF required_statuses = {"ok"} THEN "succeeded"
             ELSE IF existing_status # "" THEN existing_status ELSE "unknown"
        ELSE IF existing_status \in {"", "expected", "running", "produced"} THEN "succeeded"
             ELSE IF existing_status # "" THEN existing_status ELSE "unknown"

\* a rollup in which a task without required assets always succeeds, a failed
\* one too
TaskRollup_default_always(task, assets) ==
    LET existing_status == task.status
        required_statuses == RequiredStatuses(task, assets)
    IN  IF required_statuses = {} THEN "succeeded"
        ELSE IF existing_status = "failed" THEN "failed"
        ELSE IF "failed" \in required_statuses THEN "failed"
        ELSE IF "missing" \in required_statuses THEN "succeeded_with_missing_outputs"
        ELSE IF "corrupt" \in required_statuses THEN "succeeded_with_corrupt_outputs"
        ELSE IF "unknown" \in required_statuses THEN "succeeded_with_unverified_outputs"
        ELSE IF required_statuses = {"ok"} THEN "succeeded"
        ELSE IF existing_status # "" THEN existing_status ELSE "unknown"

\* final_status of one task in the rollup loop of _cmd_finalize
TaskRollup(task, assets) ==
    LET existing_status == task.status
        required_statuses == RequiredStatuses(task, assets)
    IN  IF existing_status = "failed" THEN "failed"
        ELSE IF required_statuses # {}
        THEN IF "failed" \in required_statuses THEN "failed"
             ELSE IF "missing" \in required_statuses THEN "succeeded_with_missing_outputs"
             ELSE IF "corrupt" \in required_statuses THEN "succeeded_with_corrupt_outputs"
             ELSE IF "unknown" \in required_statuses THEN "succeeded_with_unverified_outputs"
             ELSE IF required_statuses = {"ok"} THEN "succeeded"
             ELSE IF existing_status # "" THEN existing_status ELSE "unknown"
        ELSE IF existing_status \in {"", "expected", "running", "produced"} THEN "succeeded"
             ELSE IF existing_status # "" THEN existing_status ELSE "unknown"

\* dict of counts: status -> number of records of the list with that status
StatusCounts(recs) ==
    [st \in {recs[i].status : i \in 1..Len(recs)} |->
        Cardinality({i \in 1..Len(recs) : recs[i].status = st})]

---------------------------------------------------------------------------
(* finalize: per-folder contracts and publication *)

ContractFile == <<"/", "_run_contract.json">>

\* the filtered contract of one folder
_build_folder_contract(full_contract, folder_uri, folder_assets) ==
    LET folder_asset_ids == {folder_assets[i].asset_id : i \in 1..Len(folder_assets)}
        relevant_task_ids == {folder_assets[i].task_id : i \in 1..Len(folder_assets)}
        kept == SelectSeq(full_contract.tasks, LAMBDA task : task.task_id \in relevant_task_ids)
        filtered_tasks ==
            [i \in 1..Len(kept) |->
                [kept[i] EXCEPT
                   !.asset_ids = SortIds({aid \in Range(@) : aid \in folder_asset_ids})]]
    IN  [schema_version |-> full_contract.schema_version,
         run |-> full_contract.run,
         tasks |-> filtered_tasks,
         assets |-> folder_assets,
         verification |->
            [finished_at |-> IF "finished_at" \in DOMAIN full_contract.verification
                             THEN full_contract.verification.finished_at ELSE NoTime,
             asset_status_counts |-> StatusCounts(folder_assets),
             task_status_counts |-> StatusCounts(filtered_tasks),
             scope |-> "folder",
             folder_uri |-> folder_uri],
         paths |-> [scope |-> "folder", folder_uri |-> folder_uri]]

\* _upload_contract_to_gcs: copied is whether `gsutil cp` would succeed
_upload_contract_to_gcs(gcs_dest, copied) ==
    IF ~StartsWith(gcs_dest, GS) THEN [ok |-> FALSE, err |-> "gcs_dest must start with gs://"]
    ELSE IF ~copied THEN [ok |-> FALSE, err |-> "failed upload"]
    ELSE [ok |-> TRUE, err |-> Null]

\* the upload section without the fallback to the output root
PublishPlan_no_fallback(folder_groups, scope, output_location) ==
    IF scope = "folder" /\ StartsWith(output_location, GS)
    THEN LET sorted == SortStrs(DOMAIN folder_groups)
         IN  [k \in 1..Len(sorted) |->
                [folder_uri |-> sorted[k],
                 gcs_dest |-> RStrip(sorted[k], "/") \o ContractFile,
                 whole |-> FALSE]]
    ELSE IF scope = "run" /\ StartsWith(output_location, GS)
    THEN <<[folder_uri |-> output_location,
            gcs_dest |-> RStrip(output_location, "/") \o ContractFile,
            whole |-> TRUE]>>
    ELSE << >>

\* the uploads _cmd_finalize goes through, in order: [folder_uri, gcs_dest, whole];
\* whole is TRUE where the contract file itself is uploaded; folder_groups is
\* what _group_assets_by_folder(assets) returned
PublishPlan(folder_groups, scope, output_location) ==
    IF scope = "folder" /\ StartsWith(output_location, GS) /\ DOMAIN folder_groups # {}
    THEN LET sorted == SortStrs(DOMAIN folder_groups)
         IN  [k \in 1..Len(sorted) |->
                [folder_uri |-> sorted[k],
                 gcs_dest |-> RStrip(sorted[k], "/") \o ContractFile,
                 whole |-> FALSE]]
    ELSE IF scope \in {"folder", "run"} /\ StartsWith(output_location, GS)
    THEN <<[folder_uri |-> output_location,
            gcs_dest |-> RStrip(output_location, "/") \o ContractFile,
            whole |-> TRUE]>>
    ELSE << >>

\* what reaches object storage: the ids a published contract holds
Published(doc) ==
    [tasks |-> [i \in 1..Len(doc.tasks) |->
                  [task_id |-> doc.tasks[i].task_id, asset_ids |-> doc.tasks[i].asset_ids]],
     assets |-> [i \in 1..Len(doc.assets) |->
                  [asset_id |-> doc.assets[i].asset_id, task_id |-> doc.assets[i].task_id]]]

\* one upload of the plan: its folder_uploads record and what was attempted;
\* copied is the fate of `gsutil cp`
Upload(written, folder_groups, step, copied) ==
    LET result == _upload_contract_to_gcs(step.gcs_dest, copied)
    IN  [record |->
            [folder_uri |-> step.folder_uri, gcs_dest |-> step.gcs_dest,
             asset_count |-> IF step.whole THEN Len(written.assets)
                             ELSE Len(folder_groups[step.folder_uri]),
             success |-> result.ok, error |-> result.err],
         attempt |->
            [folder_uri |-> step.folder_uri, whole |-> step.whole,
             gcs_dest |-> step.gcs_dest, ok |-> result.ok,
             doc |-> IF step.whole THEN Published(written)
                     ELSE Published(_build_folder_contract(
                              written, step.folder_uri, folder_groups[step.folder_uri]))]]

\* the upload section giving up at the first upload that fails
Publish_until_failure(written, folder_groups, plan, copied) ==
    [k \in 1..(IF \E j \in 1..Len(plan) : ~copied[plan[j].gcs_dest]
               THEN CHOOSE j \in 1..Len(plan) :
                       /\ ~copied[plan[j].gcs_dest]
                       /\ \A i \in 1..(j - 1) : copied[plan[i].gcs_dest]
               ELSE Len(plan)) |->
        Upload(written, folder_groups, plan[k], copied[plan[k].gcs_dest])]

\* the upload section of _cmd_finalize over the written contract: one Upload
\* per step of the plan, in order
Publish(written, folder_groups, plan, copied) ==
    [k \in 1..Len(plan) |-> Upload(written, folder_groups, plan[k], copied[plan[k].gcs_dest])]

---------------------------------------------------------------------------
(* finalize *)

RequiredPositions(assets) == {i \in 1..Len(assets) : assets[i].required}

\* missing_required without the failed assets
MissingRequired_missing_only(assets) ==
    IdsAt(assets, {i \in RequiredPositions(assets) : assets[i].status = "missing"})

\* missing_required, corrupt_required, unknown_required of the asset loop
MissingRequired(assets) ==
    IdsAt(assets, {i \in RequiredPositions(assets) :
                      assets[i].status \in {"missing", "failed"}})

CorruptRequired(assets) ==
    IdsAt(assets, {i \in RequiredPositions(assets) : assets[i].status = "corrupt"})

UnknownRequired(assets) ==
    IdsAt(assets, {i \in RequiredPositions(assets) : assets[i].status = "unknown"})

\* the task loop of _cmd_finalize at time t
TaskLoop(tasks, assets, t) ==
    List([i \in 1..Len(tasks) |->
            [tasks[i] EXCEPT
               !.status = TaskRollup(tasks[i], assets),
               !.finished_at = IF @ # NoTime THEN @ ELSE t]])

\* the verification dict; discovered is what the scans found
Verification(tasks, assets, known_existing_locations, discovered, t) ==
    [finished_at |-> t,
     expected_assets_count |-> Cardinality({i \in 1..Len(assets) : assets[i].expected}),
     produced_assets_count |-> Cardinality({i \in 1..Len(assets) : assets[i].produced}),
     required_assets_count |-> Cardinality(RequiredPositions(assets)),
     asset_status_counts |-> StatusCounts(assets),
     input_asset_status_counts |->
        StatusCounts(SelectSeq(assets, LAMBDA a : a.role = "input")),
     output_asset_status_counts |->
        StatusCounts(SelectSeq(assets, LAMBDA a : a.role # "input")),
     task_status_counts |-> StatusCounts(tasks),
     missing_required_asset_ids |-> SortIds(Range(MissingRequired(assets))),
     missing_required_input_ids |->
        SortIds({assets[i].asset_id : i \in
                   {j \in RequiredPositions(assets) :
                       /\ assets[j].role = "input"
                       /\ assets[j].status \in {"missing", "failed"}}}),
     corrupt_required_asset_ids |-> SortIds(Range(CorruptRequired(assets))),
     unverified_required_asset_ids |-> SortIds(Range(UnknownRequired(assets))),
     unexpected_outputs |-> SortStrs(discovered \ known_existing_locations),
     unexpected_outputs_count |-> Cardinality(discovered \ known_existing_locations)]

\* run_status that looks at the unknown assets before the missing and corrupt ones
RunStatus_unknown_first(override, tasks, assets) ==
    IF override # "" THEN override
    ELSE IF \E i \in 1..Len(tasks) : tasks[i].status = "failed" THEN "FAILED"
    ELSE IF Len(UnknownRequired(assets)) > 0 THEN "FINISHED_WITH_UNVERIFIED_OUTPUTS"
    ELSE IF Len(MissingRequired(assets)) > 0 \/ Len(CorruptRequired(assets)) > 0
         THEN "FINISHED_WITH_ISSUES"
    ELSE "FINISHED"

\* str(args.status or "").strip() for the values of --status in use
Strip(status) ==
    IF status = " " THEN ""
    ELSE IF status = " ARCHIVED " THEN "ARCHIVED"
    ELSE status

\* a run status in which a failed task wins over the --status override
RunStatus_failed_first(override, tasks, assets) ==
    IF \E i \in 1..Len(tasks) : tasks[i].status = "failed" THEN "FAILED"
    ELSE IF Strip(override) # "" THEN Strip(override)
    ELSE IF Len(MissingRequired(assets)) > 0 \/ Len(CorruptRequired(assets)) > 0
         THEN "FINISHED_WITH_ISSUES"
    ELSE IF Len(UnknownRequired(assets)) > 0 THEN "FINISHED_WITH_UNVERIFIED_OUTPUTS"
    ELSE "FINISHED"

\* run_status: the --status override, else derived from the task and asset loops
RunStatus(override, tasks, assets) ==
    IF Strip(override) # "" THEN Strip(override)
    ELSE IF \E i \in 1..Len(tasks) : tasks[i].status = "failed" THEN "FAILED"
    ELSE IF Len(MissingRequired(assets)) > 0 \/ Len(CorruptRequired(assets)) > 0
         THEN "FINISHED_WITH_ISSUES"
    ELSE IF Len(UnknownRequired(assets)) > 0 THEN "FINISHED_WITH_UNVERIFIED_OUTPUTS"
    ELSE "FINISHED"

\* the end of _cmd_finalize with --strict looking at the required assets only
FinalizeExit_assets_only(args, written, published) ==
    [rc |-> IF /\ args.strict
               /\ \/ Len(written.verification.missing_required_asset_ids) > 0
                  \/ Len(written.verification.corrupt_required_asset_ids) > 0
                  \/ Len(written.verification.unverified_required_asset_ids) > 0
            THEN 2 ELSE 0,
     contract |->
        IF Len(published) > 0
        THEN [written EXCEPT
                !.verification =
                    [folder_uploads |-> [k \in 1..Len(published) |-> published[k].record]]
                        @@ @]
        ELSE written,
     attempts |-> [k \in 1..Len(published) |-> published[k].attempt]]

\* the end of _cmd_finalize with the checks of --strict made unconditionally
FinalizeExit_always_strict(args, written, published) ==
    [rc |-> IF \/ Len(written.verification.missing_required_asset_ids) > 0
               \/ Len(written.verification.corrupt_required_asset_ids) > 0
               \/ Len(written.verification.unverified_required_asset_ids) > 0
               \/ "failed" \in DOMAIN written.verification.task_status_counts
            THEN 2 ELSE 0,
     contract |->
        IF Len(published) > 0
        THEN [written EXCEPT
                !.verification =
                    [folder_uploads |-> [k \in 1..Len(published) |-> published[k].record]]
                        @@ @]
        ELSE written,
     attempts |-> [k \in 1..Len(published) |-> published[k].attempt]]

\* the exit code and what _cmd_finalize leaves behind: the contract as last
\* written and the upload attempts
FinalizeExit(args, written, published) ==
    [rc |-> IF /\ args.strict
               /\ \/ Len(written.verification.missing_required_asset_ids) > 0
                  \/ Len(written.verification.corrupt_required_asset_ids) > 0
                  \/ Len(written.verification.unverified_required_asset_ids) > 0
                  \/ "failed" \in DOMAIN written.verification.task_status_counts
            THEN 2 ELSE 0,
     contract |->
        IF Len(published) > 0
        THEN [written EXCEPT
                !.verification =
                    [folder_uploads |-> [k \in 1..Len(published) |-> published[k].record]]
                        @@ @]
        ELSE written,
     attempts |-> [k \in 1..Len(published) |-> published[k].attempt]]

\* the upload section, folder_groups being what _group_assets_by_folder returned
FinalizeUpload(args, copied, written, folder_groups) ==
    FinalizeExit(args, written,
        Publish(written, folder_groups,
                PublishPlan(folder_groups, args.contract_scope,
                            Or(args.output_location, written.run.output_location)),
                copied))

\* the first _write_contract of _cmd_finalize and the upload section after it
FinalizeWrite(c, args, copied, t, tasks, assets, verification) ==
    FinalizeUpload(args, copied,
        [c EXCEPT !.tasks = tasks, !.assets = assets,
                  !.run = [@ EXCEPT
                             !.status = RunStatus(args.status, tasks, assets),
                             !.completed_at = t,
                             !.output_location = Or(args.output_location, @)],
                  !.verification = verification],
        _group_assets_by_folder(assets))

\* the task loop and the verification dict, assets and known_existing_locations
\* being those after the asset loop
FinalizeTasks(c, args, copied, t, tasks, assets, known_existing_locations) ==
    FinalizeWrite(c, args, copied, t, tasks, assets,
        Verification(tasks, assets, known_existing_locations, args.discovered, t))

\* an asset loop that removes the assets it finds missing
FinalizeLooped_pruned(c, args, copied, t, tasks, looped) ==
    FinalizeTasks(c, args, copied, t,
        TaskLoop(tasks,
                 SelectSeq([i \in 1..Len(looped) |-> looped[i].asset],
                           LAMBDA asset : asset.status # "missing"), t),
        SelectSeq([i \in 1..Len(looped) |-> looped[i].asset],
                  LAMBDA asset : asset.status # "missing"),
        UNION {looped[i].known : i \in 1..Len(looped)})

\* the asset loop over the repaired lists; looped holds, per asset, what
\* FinalizeAsset returned
FinalizeLooped(c, args, copied, t, tasks, looped) ==
    FinalizeTasks(c, args, copied, t,
        TaskLoop(tasks, [i \in 1..Len(looped) |-> looped[i].asset], t),
        [i \in 1..Len(looped) |-> looped[i].asset],
        UNION {looped[i].known : i \in 1..Len(looped)})

FinalizeRepaired(c, env, args, copied, t, repaired) ==
    FinalizeLooped(c, args, copied, t, repaired.tasks,
        List([i \in 1..Len(repaired.assets) |->
                FinalizeAsset(repaired.assets[i], env[i], args.audit_corruption)]))

\* _cmd_finalize without --verification-json-file, at time t.  env holds one
\* probe per asset, args the command line ("status" is the override of the run
\* status, "" when absent; "discovered" is what the scans of --scan-local-dir
\* and --scan-gcs-prefix find), copied the fate of each upload.
\* [rc, contract, attempts]
_cmd_finalize(c, env, args, copied, t) ==
    FinalizeRepaired(c, env, args, copied, t, RepairRefs(c.tasks, c.assets, 1, t))

\* the destinations a finalize of c with these arguments uploads to
UploadDests(c, args) ==
    {step.gcs_dest :
        step \in Range(PublishPlan(_group_assets_by_folder(c.assets), args.contract_scope,
                                   Or(args.output_location, c.run.output_location)))}

---------------------------------------------------------------------------
(* The files and the invocations in flight *)

Procs == {"p1", "p2", "p3"}

\* no file at the path
NoFile == [exists |-> FALSE]

\* an invocation that has not started
Idle == [pc |-> "idle", op |-> [cmd |-> "none"], t |-> NoTime, result |-> [rc |-> 0],
         at |-> "none", clean |-> TRUE, version |-> 0, wrote |-> 0]

\* one invocation at a time: the document file whole, no temporary file left,
\* nothing in flight
Quiet ==
    /\ integrity = "whole"
    /\ tmpfile = NoFile
    /\ procs = [p \in Procs |-> Idle]

---------------------------------------------------------------------------
(* The invocations as actions.  Each reads the clock once, at now + 1. *)

OpsDone == now - 1

\* what an invocation leaves behind: r is [rc, contract] of the command, op the
\* command line, attempts the uploads it tried
Invoked(r, op, attempts) ==
    /\ contract' = r.contract
    /\ lastOp' = [rc |-> r.rc] @@ op
    /\ gcs' = attempts
    /\ now' = now + 1
    /\ UNCHANGED <<integrity, tmpfile, procs>>

RecordProduced(args) ==
    Invoked(_cmd_record_produced(contract, args, now + 1),
            [cmd |-> "record-produced", task_id |-> args.task_id,
             asset_id |-> args.asset_id],
            << >>)

MarkTask(args) ==
    Invoked(_cmd_mark_task(contract, args.task_id, args.status, args.error, now + 1),
            [cmd |-> "mark-task", task_id |-> args.task_id, status |-> args.status,
             error |-> args.error],
            << >>)

Preflight(env, strict) ==
    Invoked(_cmd_preflight(contract, env, strict, now + 1),
            [cmd |-> "preflight", strict |-> strict],
            << >>)

Finalized(r, args) ==
    Invoked(r, [cmd |-> "finalize", strict |-> args.strict, status |-> args.status,
                contract_scope |-> args.contract_scope,
                audit_corruption |-> args.audit_corruption],
            r.attempts)

Finalize(env, args, copied) ==
    Finalized(_cmd_finalize(contract, env, args, copied, now + 1), args)

\* the state after `init` wrote the contract, r being what
\* _normalize_tasks_and_assets returned
Written(r, output_location) ==
    /\ r.ok
    /\ contract = _new_contract(r.tasks, r.assets, output_location)
    /\ now = 1
    /\ lastOp = [cmd |-> "init", rc |-> 0]
    /\ gcs = << >>
    /\ Quiet

Initialized(job, output_location) ==
    Written(_normalize_tasks_and_assets(job), output_location)

---------------------------------------------------------------------------
(* Inputs: job definitions and command lines *)

TaskDef(task_id, outputs, inputs) ==
    [task_id |-> task_id, expected_assets |-> outputs, expected_inputs |-> inputs]

\* where a job definition declares an asset: under which task, in which list
Placement(task_id, role, asset_raw) ==
    [task_id |-> task_id, role |-> role, raw |-> asset_raw]

Absent == [task_id |-> "", role |-> "", raw |-> << >>]

Placements(asset_id) ==
    IF asset_id = "a1"
    THEN {Placement("t1", "output", Declared("a1", "", TRUE, "uri", UriF)),
          Placement("t1", "input", Declared("a1", "", TRUE, "local_path", PathX)),
          Placement("t1", "output", Declared("a1", "metadata", TRUE, "local_path", PathRel))}
    ELSE IF asset_id = "a2"
    THEN {Absent,
          Placement("t1", "output", Declared("a2", "metadata", FALSE, "uri", UriG)),
          Placement("t2", "input", Declared("a2", "", TRUE, "gcs_glob", GlobD)),
          Placement("t1", "input", Declared("a2", "", FALSE, "none", NoLoc))}
    ELSE {Absent, Placement("t2", "output", Declared(asset_id, "", TRUE, "uri", UriE))}

\* the task definitions of a job that places the assets as `placed` says
JobOf(placed) ==
    LET declared(task_id, role) ==
            LET ids == {a \in DOMAIN placed :
                          placed[a].task_id = task_id /\ placed[a].role = role}
                order == SortIds(ids)
            IN  [k \in 1..Len(order) |-> placed[order[k]].raw]
        def(task_id) == TaskDef(task_id, declared(task_id, "output"), declared(task_id, "input"))
    IN  IF \E a \in DOMAIN placed : placed[a].task_id = "t2"
        THEN <<def("t2"), def("t1")>>
        ELSE <<def("t1")>>

Jobs == {JobOf(placed) :
            placed \in {f \in [AssetIds -> UNION {Placements(a) : a \in AssetIds}] :
                          \A a \in AssetIds : f[a] \in Placements(a)}}

\* record-produced command lines
Recorded(task_id, asset_id, kind, required, field, value) ==
    [task_id |-> task_id, asset_id |-> asset_id, kind |-> kind, required |-> required,
     uri |-> IF field = "uri" THEN value ELSE NoLoc,
     local_path |-> IF field = "local_path" THEN value ELSE NoLoc,
     local_glob |-> IF field = "local_glob" THEN value ELSE NoLoc,
     gcs_glob |-> IF field = "gcs_glob" THEN value ELSE NoLoc]

RecordArgs ==
    UNION {{Recorded(task_id, asset_id, "", Null, "none", NoLoc),
            Recorded(task_id, asset_id, "metadata", Null, "uri", UriE),
            Recorded(task_id, asset_id, "", "false", "local_path", PathX)} :
           task_id \in TaskIds, asset_id \in AssetIds}
    \cup {Recorded("t2", "a2", "", Null, "uri", UriBucket),
          Recorded("t2", "a2", "", Null, "gcs_glob", GlobBucket),
          Recorded("t2", "a2", "", Null, "uri", UriHttp),
          Recorded("t2", "a2", "", Null, "local_glob", LGlob)}

\* mark-task-running / -succeeded / -failed command lines
MarkArgs ==
    {[task_id |-> task_id, status |-> m[1], error |-> m[2]] :
        task_id \in TaskIds,
        m \in {<<"running", NoError>>, <<"succeeded", NoError>>,
               <<"failed", NoError>>, <<"failed", EmptyError>>, <<"failed", Boom>>}}

FinalizeFlags(strict, status, audit_corruption, contract_scope, output_location) ==
    [strict |-> strict, status |-> status, audit_corruption |-> audit_corruption,
     contract_scope |-> contract_scope, output_location |-> output_location,
     discovered |-> {}]

\* a file no asset declares
Stray == <<"/", "w", "/", "e">>

\* what the scans of --scan-local-dir /w and --scan-gcs-prefix gs://b/d find
\* when every file and object is there: normalised locations
Scanned == {PathX, Stray, UriF, _normalize_gs_uri(UriG)}

\* finalize command lines; the last one scans
FinalizeArgs ==
    {FinalizeFlags(FALSE, "", TRUE, "folder", NoLoc),
     FinalizeFlags(TRUE, "", TRUE, "folder", OutRoot),
     FinalizeFlags(FALSE, "ARCHIVED", FALSE, "run", OutRoot),
     [FinalizeFlags(FALSE, "", FALSE, "folder", Cwd) EXCEPT !.discovered = Scanned]}

---------------------------------------------------------------------------
(* The lifecycle specification: init, then up to MaxOps invocations, the    *)
(* command lines and the backends' answers drawn from the sets above        *)

Init == \E job \in Jobs : Initialized(job, NoLoc)

AnyRecordProduced ==
    OpsDone < MaxOps /\ \E args \in RecordArgs : RecordProduced(args)

AnyMarkTask ==
    OpsDone < MaxOps /\ \E args \in MarkArgs : MarkTask(args)

AnyPreflight ==
    OpsDone < MaxOps
        /\ \E env \in PreflightEnvs(contract.assets), strict \in BOOLEAN :
               Preflight(env, strict)

AnyFinalize ==
    OpsDone < MaxOps
        /\ \E env \in Envs(contract.assets), args \in FinalizeArgs :
               \E copied \in [UploadDests(contract, args) -> BOOLEAN] :
                   Finalize(env, args, copied)

Next == AnyRecordProduced \/ AnyMarkTask \/ AnyPreflight \/ AnyFinalize

Spec == Init /\ [][Next]_vars

---------------------------------------------------------------------------
(* The same lifecycle one invocation deeper, over fewer jobs and command    *)
(* lines                                                                    *)

DeepJobs ==
    {<<TaskDef("t1", <<Declared("a1", "", TRUE, "uri", UriF),
                       Declared("a2", "metadata", FALSE, "uri", UriG)>>, << >>)>>,
     <<TaskDef("t2", << >>, <<Declared("a2", "", TRUE, "gcs_glob", GlobD)>>),
       TaskDef("t1", <<Declared("a1", "", TRUE, "uri", UriF)>>, << >>)>>}

DeepRecordArgs ==
    {Recorded("t1", "a1", "", Null, "none", NoLoc),
     Recorded("t2", "a1", "", Null, "none", NoLoc)}

DeepMarkArgs ==
    {[task_id |-> "t1", status |-> m[1], error |-> m[2]] :
        m \in {<<"running", NoError>>, <<"succeeded", NoError>>,
               <<"failed", NoError>>, <<"failed", Boom>>}}

DeepFinalizeArgs == {FinalizeFlags(FALSE, "", TRUE, "folder", NoLoc)}

DeepInit == \E job \in DeepJobs : Initialized(job, NoLoc)

DeepRecordProduced ==
    OpsDone < MaxDeepOps /\ \E args \in DeepRecordArgs : RecordProduced(args)

DeepMarkTask ==
    OpsDone < MaxDeepOps /\ \E args \in DeepMarkArgs : MarkTask(args)

DeepPreflight ==
    OpsDone < MaxDeepOps
        /\ \E env \in PreflightEnvs(contract.assets) : Preflight(env, FALSE)

DeepFinalize ==
    OpsDone < MaxDeepOps
        /\ \E env \in Envs(contract.assets), args \in DeepFinalizeArgs :
               \E copied \in [UploadDests(contract, args) -> BOOLEAN] :
                   Finalize(env, args, copied)

DeepNext == DeepRecordProduced \/ DeepMarkTask \/ DeepPreflight \/ DeepFinalize

SpecDeep == DeepInit /\ [][DeepNext]_vars

---------------------------------------------------------------------------
(* The lifecycle over documents found on disk: those init wrote for the     *)
(* jobs above, and documents of another writer in which an asset names a    *)
(* task the document lacks, names no task, or is listed by no task          *)

\* a document with task t1 and asset a1, and asset a2 said to belong to task_id
Foreign(task_id, listed) ==
    _new_contract(
        <<[TaskRecord("t1") EXCEPT !.asset_ids = listed]>>,
        <<AssetRecord(Declared("a1", "", TRUE, "uri", UriF), "t1", "output"),
          AssetRecord(Declared("a2", "", TRUE, "uri", UriE), task_id, "output")>>,
        NoLoc)

ForeignDocs ==
    {Foreign("t2", <<"a1">>), Foreign("", <<"a1">>), Foreign("t1", <<"a1">>),
     Foreign("t2", <<"a1", "a2">>)}

LoadedInit ==
    \/ \E job \in DeepJobs : Initialized(job, NoLoc)
    \/ /\ contract \in ForeignDocs
       /\ now = 1
       /\ lastOp = [cmd |-> "load", rc |-> 0]
       /\ gcs = << >>
       /\ Quiet

LoadedRecordProduced ==
    OpsDone < MaxLoadedOps /\ \E args \in DeepRecordArgs : RecordProduced(args)

LoadedMarkTask ==
    OpsDone < MaxLoadedOps /\ \E args \in DeepMarkArgs : MarkTask(args)

LoadedPreflight ==
    OpsDone < MaxLoadedOps
        /\ \E env \in PreflightEnvs(contract.assets) : Preflight(env, FALSE)

LoadedFinalize ==
    OpsDone < MaxLoadedOps
        /\ \E env \in Envs(contract.assets), args \in DeepFinalizeArgs :
               \E copied \in [UploadDests(contract, args) -> BOOLEAN] :
                   Finalize(env, args, copied)

LoadedNext == LoadedRecordProduced \/ LoadedMarkTask \/ LoadedPreflight \/ LoadedFinalize

SpecLoaded == LoadedInit /\ [][LoadedNext]_vars

---------------------------------------------------------------------------
(* The lifecycle with a caller that makes mistakes: job definitions with    *)
(* duplicate ids, an empty --task-id, and documents another version of the  *)
(* engine wrote                                                             *)

\* _load_contract: the document as the commands see it.  Every key the code
\* defaults (tasks, assets, verification, paths, run) is present in the
\* documents of the model; an asset without role gets "output".  The schema
\* version is not looked at.
_load_contract(data) ==
    [data EXCEPT
       !.assets = [i \in 1..Len(data.assets) |->
                     IF data.assets[i].role = ""
                     THEN [data.assets[i] EXCEPT !.role = "output"]
                     ELSE data.assets[i]]]

\* _cmd_init over the contract file c at time t: [rc, contract]; rc 1 is the
\* ValueError of _normalize_tasks_and_assets, raised before anything is written
_cmd_init(c, job, output_location, t) ==
    LET r == _normalize_tasks_and_assets(job)
    IN  IF r.ok THEN [rc |-> 0, contract |-> _new_contract(r.tasks, r.assets, output_location)]
        ELSE [rc |-> 1, contract |-> c]

\* job definitions with a duplicate task id, a duplicate asset id within a
\* task, a duplicate asset id across tasks
BadJobs ==
    {<<TaskDef("t1", <<Declared("a1", "", TRUE, "uri", UriF)>>, << >>),
       TaskDef("t1", <<Declared("a2", "", TRUE, "uri", UriE)>>, << >>)>>,
     <<TaskDef("t1", <<Declared("a1", "", TRUE, "uri", UriF),
                       Declared("a1", "", FALSE, "uri", UriE)>>, << >>)>>,
     <<TaskDef("t2", << >>, <<Declared("a1", "", TRUE, "gcs_glob", GlobD)>>),
       TaskDef("t1", <<Declared("a1", "", TRUE, "uri", UriF)>>, << >>)>>}

CallerJobs == DeepJobs \cup BadJobs

CallerRecordArgs ==
    DeepRecordArgs \cup {Recorded("", "a1", "", Null, "none", NoLoc),
                         Recorded("", "a2", "", Null, "uri", UriE)}

CallerMarkArgs ==
    DeepMarkArgs \cup {[task_id |-> "", status |-> "running", error |-> NoError],
                       [task_id |-> "", status |-> "failed", error |-> Boom]}

\* the document of a job as an engine of another schema version wrote it
OtherVersion(job) ==
    [_new_contract(_normalize_tasks_and_assets(job).tasks,
                   _normalize_tasks_and_assets(job).assets, NoLoc)
        EXCEPT !.schema_version = SCHEMA_VERSION + 1]

CallerStart ==
    \/ \E job \in DeepJobs : Initialized(job, NoLoc)
    \/ /\ \E job \in DeepJobs : contract = OtherVersion(job)
       /\ now = 1
       /\ lastOp = [cmd |-> "load", rc |-> 0]
       /\ gcs = << >>
       /\ Quiet

CallerInit ==
    OpsDone < MaxCallerOps
        /\ \E job \in CallerJobs :
               Invoked(_cmd_init(contract, job, NoLoc, now + 1),
                       [cmd |-> "init", job |-> job], << >>)

CallerRecordProduced ==
    OpsDone < MaxCallerOps
        /\ \E args \in CallerRecordArgs :
               Invoked(_cmd_record_produced(_load_contract(contract), args, now + 1),
                       [cmd |-> "record-produced", task_id |-> args.task_id,
                        asset_id |-> args.asset_id],
                       << >>)

CallerMarkTask ==
    OpsDone < MaxCallerOps
        /\ \E args \in CallerMarkArgs :
               Invoked(_cmd_mark_task(_load_contract(contract), args.task_id,
                                      args.status, args.error, now + 1),
                       [cmd |-> "mark-task", task_id |-> args.task_id,
                        status |-> args.status, error |-> args.error],
                       << >>)

CallerPreflight ==
    OpsDone < MaxCallerOps
        /\ \E env \in PreflightEnvs(contract.assets) :
               Invoked(_cmd_preflight(_load_contract(contract), env, FALSE, now + 1),
                       [cmd |-> "preflight", strict |-> FALSE], << >>)

CallerFinalize ==
    OpsDone < MaxCallerOps
        /\ \E env \in Envs(contract.assets), args \in DeepFinalizeArgs :
               \E copied \in [UploadDests(contract, args) -> BOOLEAN] :
                   Finalized(_cmd_finalize(_load_contract(contract), env, args, copied,
                                           now + 1), args)

CallerNext ==
    CallerInit \/ CallerRecordProduced \/ CallerMarkTask \/ CallerPreflight
        \/ CallerFinalize

SpecCaller == CallerStart /\ [][CallerNext]_vars

---------------------------------------------------------------------------
(* Invocations side by side on one document.  Each is a process of its own  *)
(* that loads the document, computes, and writes it back through            *)
(* _atomic_write_text: tmp.write_text (open with truncation, then write and *)
(* close) and tmp.replace.  The temporary file has the same name for every  *)
(* invocation.  A process keeps writing to the file it opened when that     *)
(* file is renamed under it: `at` says where that file is now ("tmp",       *)
(* "doc", or "gone" once it was replaced).  `clean` says that no other      *)
(* process truncated or wrote the same file since this one opened it.       *)
(* `version` (how many times the document had been replaced when this       *)
(* invocation loaded it) and `wrote` (the how-manieth this invocation was   *)
(* to write its text) record the order of events; nothing in the code       *)
(* looks at them.                                                           *)

SharedOps ==
    {[cmd |-> "record-produced", args |-> Recorded("t1", "a1", "", Null, "none", NoLoc)],
     [cmd |-> "mark-task",
      args |-> [task_id |-> "t1", status |-> "failed", error |-> Boom]]}

\* the command op over the loaded document c at time t: [rc, contract]
Run(op, c, t) ==
    IF op.cmd = "record-produced" THEN _cmd_record_produced(_load_contract(c), op.args, t)
    ELSE _cmd_mark_task(_load_contract(c), op.args.task_id, op.args.status,
                        op.args.error, t)

\* _load_json_file of a document file: json.loads raises JSONDecodeError, a
\* ValueError (exit code 1), unless the file holds a whole document
_load_json_file(op, t) ==
    IF integrity = "whole" THEN Run(op, contract, t)
    ELSE [rc |-> 1, contract |-> contract]

\* how many invocations have replaced the document so far
Replaced ==
    Cardinality({q \in Procs : procs[q].pc = "done" /\ procs[q].result.rc = 0})

\* how many invocations have written their text so far
Written_so_far == Cardinality({q \in Procs : procs[q].wrote > 0})

\* p starts: it reads the document and computes what it will write
SharedLoad(p) ==
    /\ procs[p].pc = "idle"
    /\ \E op \in SharedOps :
          LET r == _load_json_file(op, now + 1)
          IN  /\ procs' = [procs EXCEPT
                             ![p] = [Idle EXCEPT
                                       !.pc = IF r.rc = 0 THEN "loaded" ELSE "done",
                                       !.op = op, !.t = now + 1, !.result = r,
                                       !.version = Replaced]]
              /\ lastOp' = IF r.rc = 0 THEN lastOp
                           ELSE [cmd |-> op.cmd, rc |-> r.rc, proc |-> p]
    /\ now' = now + 1
    /\ UNCHANGED <<contract, integrity, tmpfile, gcs>>

\* tmp.write_text, first half: open(tmp, "w") creates the file or truncates
\* the one that is there
SharedOpen(p) ==
    /\ procs[p].pc = "loaded"
    /\ tmpfile' = [exists |-> TRUE, doc |-> procs[p].result.contract,
                   integrity |-> "partial"]
    /\ procs' = [q \in Procs |->
                    IF q = p THEN [procs[p] EXCEPT !.pc = "opened", !.at = "tmp"]
                    ELSE IF procs[q].pc = "opened" /\ procs[q].at = "tmp"
                    THEN [procs[q] EXCEPT !.clean = FALSE]
                    ELSE procs[q]]
    /\ UNCHANGED <<contract, integrity, now, lastOp, gcs>>

\* tmp.write_text, second half: the text is written from offset 0 to the file
\* p opened, wherever that file is now, and the file is closed.  Where another
\* process truncated or wrote that file meanwhile, the bytes may be p's
\* whole text or a mix.
SharedFlush(p) ==
    /\ procs[p].pc = "opened"
    /\ \E outcome \in IF procs[p].clean THEN {"whole"} ELSE {"whole", "mixed"} :
          /\ tmpfile' = IF procs[p].at = "tmp"
                        THEN [exists |-> TRUE, doc |-> procs[p].result.contract,
                              integrity |-> outcome]
                        ELSE tmpfile
          /\ contract' = IF procs[p].at = "doc" THEN procs[p].result.contract
                         ELSE contract
          /\ integrity' = IF procs[p].at = "doc" THEN outcome ELSE integrity
    /\ procs' = [q \in Procs |->
                    IF q = p THEN [procs[p] EXCEPT !.pc = "flushed",
                                                   !.wrote = Written_so_far + 1]
                    ELSE IF /\ procs[q].pc = "opened" /\ procs[q].at = procs[p].at
                            /\ procs[p].at # "gone"
                    THEN [procs[q] EXCEPT !.clean = FALSE]
                    ELSE procs[q]]
    /\ UNCHANGED <<now, lastOp, gcs>>

\* tmp.replace(path): the file at the temporary path becomes the document,
\* whoever wrote it; FileNotFoundError (not caught by main: exit code 1) when
\* another invocation renamed it away
SharedReplace(p) ==
    /\ procs[p].pc = "flushed"
    /\ IF tmpfile.exists
       THEN /\ contract' = tmpfile.doc
            /\ integrity' = tmpfile.integrity
            /\ tmpfile' = NoFile
            /\ procs' = [q \in Procs |->
                            IF q = p THEN [procs[p] EXCEPT !.pc = "done"]
                            ELSE IF procs[q].pc \in {"loaded", "opened", "flushed"}
                            THEN [procs[q] EXCEPT
                                    !.at = IF @ = "tmp" THEN "doc"
                                           ELSE IF @ = "doc" THEN "gone" ELSE @]
                            ELSE procs[q]]
            /\ lastOp' = [cmd |-> procs[p].op.cmd, rc |-> 0, proc |-> p]
       ELSE /\ procs' = [procs EXCEPT ![p] = [@ EXCEPT !.pc = "crashed"]]
            /\ lastOp' = [cmd |-> procs[p].op.cmd, rc |-> 1, proc |-> p]
            /\ UNCHANGED <<contract, integrity, tmpfile>>
    /\ UNCHANGED <<now, gcs>>

SharedInit == \E job \in DeepJobs : Initialized(job, NoLoc)

AnyLoad == \E p \in Procs : SharedLoad(p)
AnyOpen == \E p \in Procs : SharedOpen(p)
AnyFlush == \E p \in Procs : SharedFlush(p)
AnyReplace == \E p \in Procs : SharedReplace(p)

SharedNext == AnyLoad \/ AnyOpen \/ AnyFlush \/ AnyReplace

SpecShared == SharedInit /\ [][SharedNext]_vars

---------------------------------------------------------------------------
(* Serialisation.  The document as the Python value the code holds, the     *)
(* text json.dumps(indent=2, sort_keys=True) makes of it, as a sequence of  *)
(* tokens, and the value json.loads makes of that text.  A Python value is  *)
(* tagged with its type; a str is tagged "str" where the model holds it as  *)
(* an atomic string, "text" where it holds a character sequence, "time"     *)
(* where it holds a reading of the clock.                                   *)

PyNone == [t |-> "none", v |-> 0]
PyBool(b) == [t |-> "bool", v |-> b]
PyInt(n) == [t |-> "int", v |-> n]
PyStr(s) == [t |-> "str", v |-> s]
PyText(s) == [t |-> "text", v |-> s]
PyTime(n) == [t |-> "time", v |-> n]
PyList(items) == [t |-> "list", v |-> items]
\* members: a function from the keys to the values
PyDict(members) == [t |-> "dict", v |-> members]

\* the error record of a task or an asset (None, {} or a real one) and the
\* error text of an upload (None or a str)
PyError(e) ==
    IF e = NoError THEN PyNone
    ELSE IF e = EmptyError THEN PyDict(<< >>)
    ELSE IF e = Boom THEN PyDict([k \in {"message"} |-> PyStr("boom")])
    ELSE PyStr(e)

RECURSIVE PyRecord(_)

\* the Python value the code holds under the key `name`, x being the model's
PyValue(name, x) ==
    IF name \in {"task_id", "asset_id", "status", "role", "kind"} THEN PyStr(x)
    ELSE IF name \in {"required", "expected", "produced", "success"} THEN PyBool(x)
    ELSE IF name \in {"exists", "corrupt"}
         THEN (IF x = Null THEN PyNone ELSE PyBool(x = T))
    ELSE IF name \in {"exists_reason", "corrupt_reason"}
         THEN (IF x = Null THEN PyNone ELSE PyStr(x))
    ELSE IF name \in {"uri", "local_path", "local_glob", "gcs_glob", "output_location"}
         THEN (IF x = NoLoc THEN PyNone ELSE PyText(x))
    ELSE IF name \in {"folder_uri", "gcs_dest"} THEN PyText(x)
    ELSE IF name \in {"started_at", "finished_at", "completed_at", "checked_at"}
         THEN (IF x = NoTime THEN PyNone ELSE PyTime(x))
    ELSE IF name = "error" THEN PyError(x)
    ELSE IF name \in {"asset_ids", "missing_required_asset_ids",
                      "missing_required_input_ids", "corrupt_required_asset_ids",
                      "unverified_required_asset_ids", "missing_required",
                      "missing_optional"}
         THEN PyList([k \in 1..Len(x) |-> PyStr(x[k])])
    ELSE IF name \in {"matched_outputs", "unexpected_outputs"}
         THEN PyList([k \in 1..Len(x) |-> PyText(x[k])])
    ELSE IF name \in {"asset_status_counts", "input_asset_status_counts",
                      "output_asset_status_counts", "task_status_counts"}
         THEN PyDict([k \in DOMAIN x |-> PyInt(x[k])])
    ELSE IF name \in {"tasks", "assets", "folder_uploads"}
         THEN PyList([k \in 1..Len(x) |-> PyRecord(x[k])])
    ELSE IF name \in {"run", "verification", "preflight"} THEN PyRecord(x)
    ELSE PyInt(x)

\* a dict of the document: every key with its value
PyRecord(r) == PyDict([k \in DOMAIN r |-> PyValue(k, r[k])])

\* the keys the document uses, in the order sort_keys puts them
SortedKeys ==
    <<"asset_count", "asset_id", "asset_ids", "asset_status_counts",
      "assets", "checked_at", "completed_at", "corrupt", "corrupt_reason",
      "corrupt_required_asset_ids", "error", "exists", "exists_reason",
      "expected", "expected_assets_count", "failed", "finished_at",
      "folder_uploads", "folder_uri", "gcs_dest", "gcs_glob",
      "input_asset_status_counts", "kind", "local_glob", "local_path",
      "matched_outputs", "message", "missing", "missing_optional",
      "missing_optional_count", "missing_required",
      "missing_required_asset_ids", "missing_required_count",
      "missing_required_input_ids", "ok", "output_asset_status_counts",
      "output_location", "preflight", "produced", "produced_assets_count",
      "required", "required_assets_count", "role", "run", "running",
      "schema_version", "started_at", "status", "succeeded",
      "succeeded_with_corrupt_outputs", "succeeded_with_missing_outputs",
      "succeeded_with_unverified_outputs", "success", "task_id",
      "task_status_counts", "tasks", "total_inputs", "unexpected_outputs",
      "unexpected_outputs_count", "unknown", "unverified_required_asset_ids",
      "uri", "verification">>

\* the keys of a dict, sorted
SortKeys(keys) == SelectSeq(SortedKeys, LAMBDA key : key \in keys)

\* a token of the text: punctuation "p", a literal "lit" (null, true,
\* false), a number "num", a quoted string ("str", "text", "time")
Tok(k, v) == [k |-> k, v |-> v]

RECURSIVE json_dumps_sparse(_), DumpItems_sparse(_, _), DumpMembers_sparse(_, _, _)

\* a serialiser that leaves out the members whose value is None
DumpItems_sparse(items, i) ==
    IF i > Len(items) THEN << >>
    ELSE (IF i > 1 THEN <<Tok("p", ",")>> ELSE << >>)
            \o json_dumps_sparse(items[i]) \o DumpItems_sparse(items, i + 1)

DumpMembers_sparse(members, keys, i) ==
    IF i > Len(keys) THEN << >>
    ELSE (IF i > 1 THEN <<Tok("p", ",")>> ELSE << >>)
            \o <<Tok("str", keys[i]), Tok("p", ":")>>
            \o json_dumps_sparse(members[keys[i]])
            \o DumpMembers_sparse(members, keys, i + 1)

json_dumps_sparse(x) ==
    IF x.t = "none" THEN <<Tok("lit", "null")>>
    ELSE IF x.t = "bool" THEN <<Tok("lit", IF x.v THEN "true" ELSE "false")>>
    ELSE IF x.t = "int" THEN <<Tok("num", x.v)>>
    ELSE IF x.t \in {"str", "text", "time"} THEN <<Tok(x.t, x.v)>>
    ELSE IF x.t = "list"
         THEN <<Tok("p", "[")>> \o DumpItems_sparse(x.v, 1) \o <<Tok("p", "]")>>
    ELSE <<Tok("p", "{")>>
            \o DumpMembers_sparse(
                   x.v, SortKeys({key \in DOMAIN x.v : x.v[key].t # "none"}), 1)
            \o <<Tok("p", "}")>>

RECURSIVE json_dumps(_), DumpItems(_, _), DumpMembers(_, _, _)

\* the items of a list from the i-th on, separated by commas
DumpItems(items, i) ==
    IF i > Len(items) THEN << >>
    ELSE (IF i > 1 THEN <<Tok("p", ",")>> ELSE << >>)
            \o json_dumps(items[i]) \o DumpItems(items, i + 1)

\* the members of a dict from the i-th key on: "key": value, ...
DumpMembers(members, keys, i) ==
    IF i > Len(keys) THEN << >>
    ELSE (IF i > 1 THEN <<Tok("p", ",")>> ELSE << >>)
            \o <<Tok("str", keys[i]), Tok("p", ":")>>
            \o json_dumps(members[keys[i]])
            \o DumpMembers(members, keys, i + 1)

\* json.dumps(x, sort_keys=True) of _atomic_write_json
json_dumps(x) ==
    IF x.t = "none" THEN <<Tok("lit", "null")>>
    ELSE IF x.t = "bool" THEN <<Tok("lit", IF x.v THEN "true" ELSE "false")>>
    ELSE IF x.t = "int" THEN <<Tok("num", x.v)>>
    ELSE IF x.t \in {"str", "text", "time"} THEN <<Tok(x.t, x.v)>>
    ELSE IF x.t = "list"
         THEN <<Tok("p", "[")>> \o DumpItems(x.v, 1) \o <<Tok("p", "]")>>
    ELSE <<Tok("p", "{")>>
            \o DumpMembers(x.v, SortKeys(DOMAIN x.v), 1)
            \o <<Tok("p", "}")>>

\* whether the i-th token is the punctuation mark c
IsMark(toks, i, c) == toks[i].k = "p" /\ toks[i].v = c

RECURSIVE ParseValue(_, _), ParseItems(_, _, _), ParseMembers(_, _, _)

\* the value that starts at the i-th token: [value, next]
ParseValue(toks, i) ==
    LET tok == toks[i]
    IN  IF tok.k = "lit"
        THEN [value |-> IF tok.v = "null" THEN PyNone ELSE PyBool(tok.v = "true"),
              next |-> i + 1]
        ELSE IF tok.k = "num" THEN [value |-> PyInt(tok.v), next |-> i + 1]
        ELSE IF tok.k \in {"str", "text", "time"}
             THEN [value |-> [t |-> tok.k, v |-> tok.v], next |-> i + 1]
        ELSE IF tok.v = "["
             THEN (IF IsMark(toks, i + 1, "]")
                   THEN [value |-> PyList(<< >>), next |-> i + 2]
                   ELSE ParseItems(toks, i + 1, << >>))
        ELSE (IF IsMark(toks, i + 1, "}")
              THEN [value |-> PyDict(<< >>), next |-> i + 2]
              ELSE ParseMembers(toks, i + 1, << >>))

\* the rest of a list whose items so far are acc
ParseItems(toks, i, acc) ==
    LET r == ParseValue(toks, i)
    IN  IF IsMark(toks, r.next, ",")
        THEN ParseItems(toks, r.next + 1, Append(acc, r.value))
        ELSE [value |-> PyList(Append(acc, r.value)), next |-> r.next + 1]

\* the rest of a dict whose members so far are acc; a key met again replaces
\* the earlier one
ParseMembers(toks, i, acc) ==
    LET r == ParseValue(toks, i + 2)
        members == (toks[i].v :> r.value) @@ acc
    IN  IF IsMark(toks, r.next, ",")
        THEN ParseMembers(toks, r.next + 1, members)
        ELSE [value |-> PyDict(members), next |-> r.next + 1]

\* json.loads(text) of _load_json_file
json_loads(toks) == ParseValue(toks, 1).value

---------------------------------------------------------------------------
(* Properties.  AssetsOf / TasksOf go over the positions of the lists. *)

AssetsOf(c) == 1..Len(c.assets)
TasksOf(c) == 1..Len(c.tasks)

\* the asset ids the task task_id of the document lists, {} when it has no such task
ListedBy(c, task_id) ==
    IF TaskPos(c.tasks, task_id) = 0 THEN {}
    ELSE Range(c.tasks[TaskPos(c.tasks, task_id)].asset_ids)

\* C1 reads "carries an error" as a non-empty error record, which is what
\* the code tests (an empty JSON object {} is falsy)
C1_Precedence(asset) ==
    IF asset.error \notin {NoError, EmptyError} THEN "failed"
    ELSE IF HasLocation(asset) /\ asset.exists = F THEN "missing"
    ELSE IF asset.corrupt = T THEN "corrupt"
    ELSE IF asset.exists = T THEN "ok"
    ELSE IF HasLocation(asset) /\ asset.exists = Null THEN "unknown"
    ELSE IF asset.produced THEN "produced"
    ELSE "expected"

\* C1: after every finalize pass each asset's status is the one the strict
\* precedence failed > missing > corrupt > ok > unknown > produced/expected
\* gives for its error record, existence, corruption, produced flag and
\* declared location.
C1_StatusByPrecedence ==
    lastOp.cmd = "finalize" =>
        \A i \in AssetsOf(contract) :
            contract.assets[i].status = C1_Precedence(contract.assets[i])

\* a finalize pass left an asset that carries an error, exists and is corrupt
\* as failed, and another without error as missing
C1_Witness ==
    /\ lastOp.cmd = "finalize"
    /\ \E i \in AssetsOf(contract) :
          /\ contract.assets[i].error = Boom
          /\ contract.assets[i].exists = T
          /\ contract.assets[i].corrupt = T
          /\ contract.assets[i].status = "failed"
    /\ \E i \in AssetsOf(contract) :
          /\ contract.assets[i].error = Boom
          /\ contract.assets[i].exists = F
          /\ contract.assets[i].status = "failed"

\* C2: a mark-task-failed sets every asset the task lists at that moment to
\* failed, copies the error payload onto it when one is given, and leaves
\* every asset the task does not list as it was.
C2_FailedPropagates ==
    [][(lastOp'.cmd = "mark-task" /\ lastOp'.status = "failed") =>
          /\ Len(contract'.assets) = Len(contract.assets)
          /\ \A i \in AssetsOf(contract) :
                IF contract.assets[i].asset_id \in ListedBy(contract, lastOp'.task_id)
                THEN /\ contract'.assets[i].status = "failed"
                     /\ lastOp'.error # NoError =>
                            contract'.assets[i].error = lastOp'.error
                ELSE contract'.assets[i] = contract.assets[i]]_vars

\* a mark-task-failed with a payload failed a listed asset and left another
\* task's asset alone
C2_Witness ==
    /\ lastOp.cmd = "mark-task" /\ lastOp.status = "failed" /\ lastOp.error = Boom
    /\ \E i, j \in AssetsOf(contract) :
          /\ contract.assets[i].asset_id \in ListedBy(contract, lastOp.task_id)
          /\ contract.assets[i].status = "failed"
          /\ contract.assets[i].error = Boom
          /\ contract.assets[j].asset_id \notin ListedBy(contract, lastOp.task_id)
          /\ contract.assets[j].status # "failed"

\* C3: after a task was marked failed, the assets it listed at that moment
\* still have status failed after the next record-produced, preflight or
\* finalize.
C3_FailedSticks ==
    [][(/\ lastOp.cmd = "mark-task" /\ lastOp.status = "failed"
        /\ lastOp'.cmd \in {"record-produced", "preflight", "finalize"}) =>
          \A i \in AssetsOf(contract) :
              contract.assets[i].asset_id \in ListedBy(contract, lastOp.task_id) =>
                  contract'.assets[i].status = "failed"]_vars

\* statuses of the required assets the task lists
C4_RequiredStatuses(c, task) ==
    {c.assets[i].status :
        i \in {j \in AssetsOf(c) : /\ c.assets[j].asset_id \in Range(task.asset_ids)
                                    /\ c.assets[j].required}}

\* whether final is the status C4 gives a task whose status was existing and
\* whose required assets have these statuses (TRUE where C4 says nothing)
C4_Agrees(existing, required_statuses, final) ==
    IF existing = "failed" THEN final = "failed"
    ELSE IF required_statuses = {} THEN TRUE
    ELSE IF "failed" \in required_statuses THEN final = "failed"
    ELSE IF "missing" \in required_statuses THEN final = "succeeded_with_missing_outputs"
    ELSE IF "corrupt" \in required_statuses THEN final = "succeeded_with_corrupt_outputs"
    ELSE IF "unknown" \in required_statuses
         THEN final = "succeeded_with_unverified_outputs"
    ELSE required_statuses = {"ok"} => final = "succeeded"

C6_Rank(status) ==
    IF status \in TerminalStatuses THEN 2
    ELSE IF status = "running" THEN 1
    ELSE 0

\* C6: no mark-task-* and no record-produced moves a task's status backwards
\* along expected -> running -> terminal.
C6_StatusForward ==
    [][lastOp'.cmd \in {"mark-task", "record-produced"} =>
          \A p \in TasksOf(contract) :
              LET q == TaskPos(contract'.tasks, contract.tasks[p].task_id)
              IN  /\ q # 0
                  /\ C6_Rank(contract'.tasks[q].status)
                        >= C6_Rank(contract.tasks[p].status)]_vars

\* every asset's task_id names a task of the document
C7_RefsOK(c) == \A i \in AssetsOf(c) : c.assets[i].task_id \in _task_ids(c)

\* C7: a document init wrote has no asset naming an absent task and no
\* operation introduces one, so none is reachable from init; and a finalize
\* of any document, also one in which an asset names an absent or no task,
\* completes and leaves every asset naming a task of the document, the task
\* it named before (or "unassigned" if it named none), all earlier tasks kept.
C7_TaskRefs ==
    /\ lastOp.cmd = "init" => C7_RefsOK(contract)
    /\ [][/\ C7_RefsOK(contract) => C7_RefsOK(contract')
          /\ lastOp'.cmd = "finalize" =>
                /\ lastOp'.rc \in {0, 2}
                /\ C7_RefsOK(contract')
                /\ _task_ids(contract) \subseteq _task_ids(contract')
                /\ Len(contract'.assets) = Len(contract.assets)
                /\ \A i \in AssetsOf(contract) :
                      contract'.assets[i].task_id =
                          IF contract.assets[i].task_id = "" THEN "unassigned"
                          ELSE contract.assets[i].task_id]_vars

\* a finalize gave the asset that named no task the placeholder task
\* "unassigned", which lists it
C7_Witness ==
    /\ lastOp.cmd = "finalize"
    /\ \E i \in AssetsOf(contract) :
          /\ contract.assets[i].task_id = "unassigned"
          /\ contract.assets[i].asset_id \in ListedBy(contract, "unassigned")

\* an asset whose location is an object-storage URI or glob
C8_ObjectStorage(asset) ==
    StartsWith(asset.uri, GS) \/ StartsWith(asset.gcs_glob, GS)

\* C8: every asset whose location is an object-storage URI or glob is in
\* exactly one folder group, the groups hold no other asset, and an asset
\* with only local locations is in none.
C8_Partition ==
    LET groups == _group_assets_by_folder(contract.assets)
        holding(i) == {folder \in DOMAIN groups :
                          \E k \in 1..Len(groups[folder]) :
                              groups[folder][k] = contract.assets[i]}
    IN  \A i \in AssetsOf(contract) :
            IF C8_ObjectStorage(contract.assets[i])
            THEN Cardinality(holding(i)) = 1
            ELSE holding(i) = {}

\* C9: the sub-contract published to a folder holds exactly the assets of
\* the folder and exactly the tasks that list at least one of them, each
\* with the non-empty part of its asset ids that lies in the folder, and
\* the task of every asset it holds.
C9_SubContracts ==
    lastOp.cmd = "finalize" =>
        \A k \in 1..Len(gcs) :
            ~gcs[k].whole =>
                LET doc == gcs[k].doc
                    ids == {doc.assets[i].asset_id : i \in 1..Len(doc.assets)}
                    tids == {doc.tasks[p].task_id : p \in 1..Len(doc.tasks)}
                IN  /\ ids = {contract.assets[i].asset_id :
                                 i \in {j \in AssetsOf(contract) :
                                           _gcs_folder(contract.assets[j])
                                               = gcs[k].folder_uri}}
                    /\ tids = {contract.tasks[p].task_id :
                                  p \in {q \in TasksOf(contract) :
                                            Range(contract.tasks[q].asset_ids)
                                                \cap ids # {}}}
                    /\ \A p \in 1..Len(doc.tasks) :
                          /\ Range(doc.tasks[p].asset_ids) # {}
                          /\ Range(doc.tasks[p].asset_ids) =
                                ListedBy(contract, doc.tasks[p].task_id) \cap ids
                    /\ \A i \in 1..Len(doc.assets) : doc.assets[i].task_id \in tids

\* C10: a folder-scoped finalize with an object-storage output root and at
\* least one folder group completes, attempts one upload per folder group
\* whatever the other uploads did, and writes folder_uploads with exactly
\* one record per folder: its destination, its asset count, the success
\* flag of that folder's upload and the error.
C10_FolderUploads ==
    LET groups == _group_assets_by_folder(contract.assets)
    IN  (/\ lastOp.cmd = "finalize" /\ lastOp.contract_scope = "folder"
         /\ StartsWith(contract.run.output_location, GS)
         /\ DOMAIN groups # {}) =>
            /\ lastOp.rc \in {0, 2}
            /\ Len(gcs) = Cardinality(DOMAIN groups)
            /\ "folder_uploads" \in DOMAIN contract.verification
            /\ Len(contract.verification.folder_uploads) = Cardinality(DOMAIN groups)
            /\ \A folder \in DOMAIN groups :
                  \E k \in 1..Len(gcs) :
                      LET record == contract.verification.folder_uploads[k]
                      IN  /\ gcs[k].folder_uri = folder
                          /\ record.folder_uri = folder
                          /\ record.gcs_dest = gcs[k].gcs_dest
                          /\ record.gcs_dest = RStrip(folder, "/") \o ContractFile
                          /\ record.asset_count = Len(groups[folder])
                          /\ record.success = gcs[k].ok
                          /\ record.success <=> record.error = Null

\* a folder-scoped finalize over two folders whose first upload failed and
\* whose second succeeded
C10_Witness ==
    /\ lastOp.cmd = "finalize" /\ lastOp.contract_scope = "folder"
    /\ Len(gcs) = 2
    /\ ~gcs[1].whole /\ ~gcs[1].ok
    /\ ~gcs[2].whole /\ gcs[2].ok
    /\ "folder_uploads" \in DOMAIN contract.verification
    /\ ~contract.verification.folder_uploads[1].success
    /\ contract.verification.folder_uploads[2].success

\* the upload of the whole contract to the output root, and nothing else
C11_OneAtRoot ==
    /\ Len(gcs) = 1
    /\ gcs[1].whole
    /\ gcs[1].folder_uri = contract.run.output_location
    /\ gcs[1].gcs_dest = RStrip(contract.run.output_location, "/") \o ContractFile
    /\ gcs[1].doc = Published(contract)

\* C11 as stated: after a finalize in folder scope of a run that declares an
\* output root and has no asset with an object-storage destination, exactly
\* one contract was published, at the output root.
C11_RootFallback ==
    (/\ lastOp.cmd = "finalize" /\ lastOp.contract_scope = "folder"
     /\ contract.run.output_location # NoLoc
     /\ \A i \in AssetsOf(contract) : ~C8_ObjectStorage(contract.assets[i]))
        => C11_OneAtRoot

\* C11 amended: after a finalize in folder scope of a run whose output root
\* is an object-storage location and that has no asset with an
\* object-storage destination, exactly one upload was attempted, of the whole
\* contract, to _run_contract.json under the output root, and folder_uploads
\* records it with the number of assets and its outcome; when the output root
\* is absent or not an object-storage location, nothing was uploaded.
C11_RootFallbackGS ==
    (/\ lastOp.cmd = "finalize" /\ lastOp.contract_scope = "folder"
     /\ \A i \in AssetsOf(contract) : ~C8_ObjectStorage(contract.assets[i]))
        => IF StartsWith(contract.run.output_location, GS)
           THEN /\ C11_OneAtRoot
                /\ "folder_uploads" \in DOMAIN contract.verification
                /\ Len(contract.verification.folder_uploads) = 1
                /\ LET record == contract.verification.folder_uploads[1]
                   IN  /\ record.gcs_dest = gcs[1].gcs_dest
                       /\ record.asset_count = Len(contract.assets)
                       /\ record.success = gcs[1].ok
           ELSE gcs = << >>

\* a folder-scoped finalize of a run with local assets only that uploaded the
\* contract to the output root
C11_Witness ==
    /\ lastOp.cmd = "finalize" /\ lastOp.contract_scope = "folder"
    /\ Len(contract.assets) > 0
    /\ \A i \in AssetsOf(contract) : ~C8_ObjectStorage(contract.assets[i])
    /\ StartsWith(contract.run.output_location, GS)
    /\ Len(gcs) = 1 /\ gcs[1].whole /\ gcs[1].ok

\* C12: after a finalize in folder scope, every folder that holds at least one
\* asset had its sub-contract published to _run_contract.json in that folder,
\* whatever the other destinations are and whatever output root the run
\* declares.
C12_EveryFolder ==
    LET groups == _group_assets_by_folder(contract.assets)
    IN  (lastOp.cmd = "finalize" /\ lastOp.contract_scope = "folder") =>
            \A folder \in DOMAIN groups :
                \E k \in 1..Len(gcs) :
                    /\ ~gcs[k].whole
                    /\ gcs[k].folder_uri = folder
                    /\ gcs[k].gcs_dest = RStrip(folder, "/") \o ContractFile

\* C13: a finalize ends with a non-zero exit code when it ran in strict mode
\* and some required asset ended missing, corrupt or unknown, and also
\* whenever some task ended failed; the document it leaves is the finalized
\* one.
C13_NonZeroExit ==
    lastOp.cmd = "finalize" =>
        /\ (\/ /\ lastOp.strict
               /\ \E i \in AssetsOf(contract) :
                     /\ contract.assets[i].required
                     /\ contract.assets[i].status \in {"missing", "corrupt", "unknown"}
            \/ \E p \in TasksOf(contract) : contract.tasks[p].status = "failed")
              => lastOp.rc # 0
        /\ contract.verification # << >>
        /\ contract.verification.finished_at = now
        /\ contract.run.completed_at = now

\* C13 amended: a finalize ends with a non-zero exit code exactly when it ran
\* in strict mode and some required asset ended missing, failed, corrupt or
\* unknown or some task ended failed; without strict mode it ends with 0 also
\* when a task ended failed.  In every case the document it leaves is the
\* finalized one.
C13_StrictExit ==
    lastOp.cmd = "finalize" =>
        /\ lastOp.rc # 0 <=>
              /\ lastOp.strict
              /\ \/ \E i \in AssetsOf(contract) :
                       /\ contract.assets[i].required
                       /\ contract.assets[i].status
                             \in {"missing", "failed", "corrupt", "unknown"}
                 \/ \E p \in TasksOf(contract) : contract.tasks[p].status = "failed"
        /\ contract.verification # << >>
        /\ contract.verification.finished_at = now
        /\ contract.run.completed_at = now

\* a strict finalize that ended with a non-zero exit code for a failed task
\* alone, the document finalized
C13_Witness ==
    /\ lastOp.cmd = "finalize" /\ lastOp.strict /\ lastOp.rc # 0
    /\ \E p \in TasksOf(contract) : contract.tasks[p].status = "failed"
    /\ \A i \in AssetsOf(contract) :
          contract.assets[i].required => contract.assets[i].status = "ok"
    /\ contract.verification.finished_at = now
    /\ contract.run.status = "FAILED"

\* the statuses an asset can carry, and the tri-state of its exists field
C14_AssetStatuses ==
    {"expected", "produced", "ok", "missing", "corrupt", "unknown", "failed"}

C14_HasStatusAndExists(asset) ==
    /\ {"status", "exists"} \subseteq DOMAIN asset
    /\ asset.status \in C14_AssetStatuses
    /\ asset.exists \in {T, F, Null}

\* C14: a preflight or a finalize without --strict ends with exit code 0
\* whatever statuses the assets got; after the preflight the document holds
\* the preflight section of this pass, after the finalize the verification
\* section of this pass with asset_status_counts and finished_at; every asset
\* has a status and an exists field.
C14_LenientExit ==
    /\ (lastOp.cmd = "preflight" /\ ~lastOp.strict) =>
          /\ lastOp.rc = 0
          /\ contract.preflight # << >>
          /\ contract.preflight.checked_at = now
          /\ contract.preflight.total_inputs =
                Cardinality({i \in AssetsOf(contract) : contract.assets[i].role = "input"})
          /\ \A i \in AssetsOf(contract) : C14_HasStatusAndExists(contract.assets[i])
    /\ (lastOp.cmd = "finalize" /\ ~lastOp.strict) =>
          /\ lastOp.rc = 0
          /\ {"asset_status_counts", "finished_at"} \subseteq DOMAIN contract.verification
          /\ contract.verification.finished_at = now
          /\ contract.verification.asset_status_counts = StatusCounts(contract.assets)
          /\ \A i \in AssetsOf(contract) : C14_HasStatusAndExists(contract.assets[i])

\* a finalize without --strict that ended with exit code 0 although a required
\* asset is missing and another asset could not be verified
C14_Witness ==
    /\ lastOp.cmd = "finalize" /\ ~lastOp.strict /\ lastOp.rc = 0
    /\ \E i \in AssetsOf(contract) :
          contract.assets[i].required /\ contract.assets[i].status = "missing"
    /\ \E i \in AssetsOf(contract) : contract.assets[i].status = "unknown"
    /\ contract.run.status = "FINISHED_WITH_ISSUES"

\* C15: a preflight in strict mode ends with exit code 0 exactly when every
\* required input asset was found to exist.
C15_StrictPreflight ==
    (lastOp.cmd = "preflight" /\ lastOp.strict) =>
        (lastOp.rc = 0 <=>
            \A i \in AssetsOf(contract) :
                (contract.assets[i].role = "input" /\ contract.assets[i].required)
                    => contract.assets[i].exists = T)

\* C18: whatever asset the document holds, a pass over it records existence
\* false only when the backend answered that the object is absent; when the
\* backend is unavailable or its call fails, existence is unknown and the
\* asset is not given status missing, in preflight and in finalize alike.
C18_UnknownNotMissing ==
    \A i \in AssetsOf(contract) :
        \A w \in Outcomes(contract.assets[i]) :
            LET asset == contract.assets[i]
                probe == [w |-> w, meta |-> "unreadable"]
            IN  /\ _asset_exists(asset, w).exists = F => w = "absent"
                /\ w \in {"no_backend", "backend_error"} =>
                      /\ _asset_exists(asset, w).exists = Null
                      /\ PreflightAsset(asset, probe).exists = Null
                      /\ PreflightAsset(asset, probe).status # "missing"
                      /\ FinalizeAsset(asset, probe, TRUE).asset.exists = Null
                      /\ FinalizeAsset(asset, probe, TRUE).asset.status # "missing"

\* the commands that load the persisted document
C16_Loading == {"record-produced", "mark-task", "preflight", "finalize"}

\* C16: a record-produced, set-task-status, preflight or finalize run on a
\* document whose schema version differs from the engine's ends with an
\* error and leaves the document as it was.
C16_VersionChecked ==
    [][(contract.schema_version # SCHEMA_VERSION /\ lastOp'.cmd \in C16_Loading)
          => (lastOp'.rc # 0 /\ contract' = contract)]_vars

\* the ids a job definition declares more than once
C17_Duplicates(job) ==
    \/ \E i, j \in 1..Len(job) : i < j /\ job[i].task_id = job[j].task_id
    \/ LET declared(k) == job[k].expected_assets \o job[k].expected_inputs
       IN  \E i, j \in 1..Len(job) :
              \E m \in 1..Len(declared(i)), n \in 1..Len(declared(j)) :
                  /\ <<i, m>> # <<j, n>>
                  /\ declared(i)[m].asset_id = declared(j)[n].asset_id

\* C17: an init given a job definition with a duplicate task id or asset id,
\* and a record-produced or set-task-status given an empty task id, end with
\* an error and leave the persisted document exactly as it was: no document
\* written, no task or asset added.
C17_CallerErrors ==
    [][/\ (lastOp'.cmd = "init" /\ C17_Duplicates(lastOp'.job))
            => (lastOp'.rc # 0 /\ contract' = contract)
       /\ (lastOp'.cmd \in {"record-produced", "mark-task"} /\ lastOp'.task_id = "")
            => (lastOp'.rc # 0 /\ contract' = contract)]_vars

\* C20: at every moment the file at the document path holds a whole
\* document, one that some invocation wrote.
C20_NeverPartial == integrity = "whole"

\* an invocation that ran to its end after loading the document
C19_Finished(p) ==
    procs[p].pc \in {"done", "crashed"} /\ procs[p].result.rc = 0

\* C19: of two invocations that both loaded the document before either
\* replaced it, the document in the end is exactly what the later writer
\* computed from what it had loaded, so that the earlier writer's change is
\* absent; of two invocations of which the second loaded the document the
\* first left, the document in the end is the second's command applied to
\* the first's result, so that no change is lost.
C19_LostUpdate ==
    \A p, q \in Procs :
        (/\ p # q /\ C19_Finished(p) /\ C19_Finished(q)
         /\ \A r \in Procs \ {p, q} : procs[r].pc = "idle") =>
            /\ (procs[p].version = procs[q].version /\ procs[p].wrote < procs[q].wrote)
                  => /\ integrity = "whole"
                     /\ contract = procs[q].result.contract
            /\ procs[p].version < procs[q].version
                  => /\ integrity = "whole"
                     /\ contract =
                           Run(procs[q].op, procs[p].result.contract, procs[q].t).contract

\* the document holds exactly two output assets at gs:// uris, one required
\* and one optional
C21_TwoOutputs(c) ==
    /\ Len(c.assets) = 2
    /\ \A i \in AssetsOf(c) :
          /\ c.assets[i].role = "output"
          /\ c.assets[i].uri # NoLoc /\ StartsWith(c.assets[i].uri, GS)
    /\ \E i, j \in AssetsOf(c) : c.assets[i].required /\ ~c.assets[j].required

\* the task that owns the required asset of the document
C21_OwningTask(c) ==
    c.tasks[TaskPos(c.tasks,
                    c.assets[CHOOSE i \in AssetsOf(c) : c.assets[i].required].task_id)]

\* C21: a document initialised with two declared gs:// output assets, one
\* required and one optional, has two assets, both expected; a
\* record-produced of the required one makes it produced; when, after that
\* record-produced and a mark-task-succeeded of its owning task and nothing
\* else, a finalize runs with the storage backend unavailable, both assets
\* end unknown, the task succeeded_with_unverified_outputs and the run
\* FINISHED_WITH_UNVERIFIED_OUTPUTS.
C21_Lifecycle ==
    [][/\ (lastOp.cmd = "init" /\ C21_TwoOutputs(contract)) =>
              \A i \in AssetsOf(contract) :
                  /\ contract.assets[i].expected
                  /\ contract.assets[i].status = "expected"
       /\ (lastOp.cmd = "init" /\ C21_TwoOutputs(contract)
              /\ lastOp'.cmd = "record-produced") =>
              \A i \in AssetsOf(contract') :
                  contract'.assets[i].asset_id = lastOp'.asset_id =>
                      contract'.assets[i].produced
       /\ (/\ OpsDone = 2
           /\ C21_TwoOutputs(contract)
           /\ \E i \in AssetsOf(contract) :
                 contract.assets[i].required /\ contract.assets[i].produced
           /\ C21_OwningTask(contract).status = "succeeded"
           /\ lastOp'.cmd = "finalize" /\ lastOp'.status = ""
           /\ \A i \in AssetsOf(contract') :
                 contract'.assets[i].exists_reason = "gsutil_unavailable") =>
              /\ \A i \in AssetsOf(contract') : contract'.assets[i].status = "unknown"
              /\ C21_OwningTask(contract').status = "succeeded_with_unverified_outputs"
              /\ contract'.run.status = "FINISHED_WITH_UNVERIFIED_OUTPUTS"]_vars

\* init, a record-produced of the required asset, a mark-task-succeeded of
\* its task (which stamped finished_at before the finalize did) and a
\* finalize that found the backend unavailable for both assets
C21_Witness ==
    /\ OpsDone = 3 /\ lastOp.cmd = "finalize"
    /\ C21_TwoOutputs(contract)
    /\ \E i \in AssetsOf(contract) :
          contract.assets[i].required /\ contract.assets[i].produced
    /\ \A i \in AssetsOf(contract) :
          /\ contract.assets[i].exists_reason = "gsutil_unavailable"
          /\ contract.assets[i].status = "unknown"
    /\ C21_OwningTask(contract).finished_at \in {2, 3}
    /\ C21_OwningTask(contract).status = "succeeded_with_unverified_outputs"
    /\ contract.run.status = "FINISHED_WITH_UNVERIFIED_OUTPUTS"

\* the required assets whose declared local path the finalize found absent
C22_AbsentLocal(c) ==
    {i \in AssetsOf(c) : /\ c.assets[i].required
                         /\ c.assets[i].local_path # NoLoc
                         /\ c.assets[i].exists = F}

C23_FourValues(asset) ==
    <<Truthy(asset.error), asset.exists, asset.corrupt, asset.produced>>

\* the permutations of 1..n
C23_Perms(n) ==
    {f \in [1..n -> 1..n] : \A i, j \in 1..n : f[i] = f[j] => i = j}

\* the document with its assets in the order f and its tasks in the order g
C23_Permuted(c, f, g) ==
    [c EXCEPT !.assets = [i \in 1..Len(c.assets) |-> c.assets[f[i]]],
              !.tasks = [p \in 1..Len(c.tasks) |-> c.tasks[g[p]]]]

\* the statuses of a document: per asset id, per task id, of the run
C23_Statuses(c) ==
    [assets |-> {<<c.assets[i].asset_id, c.assets[i].status>> : i \in AssetsOf(c)},
     tasks |-> {<<c.tasks[p].task_id, c.tasks[p].status>> : p \in TasksOf(c)},
     run |-> c.run.status]

\* every finalize that can run on the document gives the same statuses when
\* the assets and the tasks of the document are put in another order
C23_OrderIndependent ==
    OpsDone < MaxOps =>
        \A args \in FinalizeArgs, env \in Envs(contract.assets) :
            \A f \in C23_Perms(Len(contract.assets)), g \in C23_Perms(Len(contract.tasks)) :
                LET copied == [d \in UploadDests(contract, args) |-> TRUE]
                IN  C23_Statuses(_cmd_finalize(contract, env, args, copied, now + 1).contract)
                      = C23_Statuses(
                            _cmd_finalize(C23_Permuted(contract, f, g),
                                          [i \in 1..Len(env) |-> env[f[i]]],
                                          args, copied, now + 1).contract)

\* C23: after a finalize any two assets that agree on error presence,
\* existence, corruption and produced flag have the same status; and putting
\* the assets and the tasks of the document in another order changes no asset
\* status, no task status and not the run status a finalize gives.
C23_FourValuesDecide ==
    /\ lastOp.cmd = "finalize" =>
          \A i, j \in AssetsOf(contract) :
              C23_FourValues(contract.assets[i]) = C23_FourValues(contract.assets[j])
                  => contract.assets[i].status = contract.assets[j].status
    /\ C23_OrderIndependent

\* C23 amended: after a finalize any two assets that agree on error
\* presence, existence, corruption, produced flag and on whether they declare
\* a location have the same status; and putting the assets and the tasks of
\* the document in another order changes no asset status, no task status and
\* not the run status a finalize gives.
C23_FiveValuesDecide ==
    /\ lastOp.cmd = "finalize" =>
          \A i, j \in AssetsOf(contract) :
              (/\ C23_FourValues(contract.assets[i]) = C23_FourValues(contract.assets[j])
               /\ HasLocation(contract.assets[i]) <=> HasLocation(contract.assets[j]))
                  => contract.assets[i].status = contract.assets[j].status
    /\ C23_OrderIndependent

\* a finalize left two assets of two tasks with the same error presence,
\* existence, corruption, produced flag and both with a location, and with
\* the same status; another finalize can still run on this document
C23_Witness ==
    /\ lastOp.cmd = "finalize" /\ OpsDone < MaxOps
    /\ Len(contract.tasks) = 2
    /\ \E i, j \in AssetsOf(contract) :
          /\ i # j
          /\ contract.assets[i].task_id # contract.assets[j].task_id
          /\ C23_FourValues(contract.assets[i]) = C23_FourValues(contract.assets[j])
          /\ HasLocation(contract.assets[i]) /\ HasLocation(contract.assets[j])
          /\ contract.assets[i].status = "missing"
          /\ contract.assets[j].status = "missing"

\* what a document can record on an asset: error, produced flag, and the
\* existence and corruption a previous pass left
C24_Recorded ==
    [error : {NoError, Boom}, produced : BOOLEAN, seen : {Null, T}]

\* the document with the values v on each of its optional assets
C24_Varied(c, v) ==
    [c EXCEPT !.assets =
        [i \in AssetsOf(c) |->
            IF c.assets[i].required THEN c.assets[i]
            ELSE [c.assets[i] EXCEPT !.error = v.error, !.produced = v.produced,
                                     !.exists = v.seen, !.corrupt = v.seen]]]

\* the answers of the backends that agree with env on the required assets
C24_VariedEnvs(c, env) ==
    {e \in Envs(c.assets) : \A i \in AssetsOf(c) : c.assets[i].required => e[i] = env[i]}

\* what C24 says the optional assets do not affect: the task statuses, the
\* run status and the exit code
C24_Rollup(r) ==
    [tasks |-> [p \in TasksOf(r.contract) |->
                   <<r.contract.tasks[p].task_id, r.contract.tasks[p].status>>],
     run |-> r.contract.run.status,
     rc |-> r.rc]

\* the answers in which every optional asset is absent
C24_BaseEnvs(c) ==
    {env \in Envs(c.assets) :
        \A i \in AssetsOf(c) :
            ~c.assets[i].required => env[i] = [w |-> "absent", meta |-> "unreadable"]}

\* the finalize command lines that leave the run status to the rollup
C24_Args == {args \in FinalizeArgs : args.status = ""}

\* C24: two documents that differ only in the error, existence, corruption
\* or produced values of optional assets get the same task statuses, the same
\* run status and the same exit code from finalize, in strict mode and
\* without.  (Each variant is compared with the one in which the optional
\* assets are as the document has them and absent: variants equal to the
\* same one are equal to one another.)
C24_OptionalIgnored ==
    (OpsDone < MaxDeepOps /\ \E i \in AssetsOf(contract) : ~contract.assets[i].required) =>
        \A args \in C24_Args, env \in C24_BaseEnvs(contract) :
            LET copied == [d \in UploadDests(contract, args) |-> TRUE]
                rollup == C24_Rollup(_cmd_finalize(contract, env, args, copied, now + 1))
            IN  \A e \in C24_VariedEnvs(contract, env) :
                    /\ C24_Rollup(_cmd_finalize(contract, e, args, copied, now + 1))
                          = rollup
                    /\ \A v \in C24_Recorded :
                          C24_Rollup(_cmd_finalize(C24_Varied(contract, v), e, args,
                                                   copied, now + 1)) = rollup

\* a finalize left an optional asset missing beside a required asset that is
\* ok: the task is succeeded and the run FINISHED
C24_Witness ==
    /\ lastOp.cmd = "finalize" /\ OpsDone < MaxDeepOps
    /\ \E i, j \in AssetsOf(contract) :
          /\ ~contract.assets[i].required /\ contract.assets[i].status = "missing"
          /\ contract.assets[j].required /\ contract.assets[j].status = "ok"
          /\ contract.assets[i].task_id = contract.assets[j].task_id
          /\ contract.tasks[TaskPos(contract.tasks, contract.assets[i].task_id)].status
                = "succeeded"
    /\ contract.run.status = "FINISHED"

\* the document without its timestamp values
C25_Untimed(c) ==
    [c EXCEPT
       !.tasks = [p \in TasksOf(c) |->
                    [c.tasks[p] EXCEPT !.started_at = NoTime, !.finished_at = NoTime]],
       !.run = [@ EXCEPT !.completed_at = NoTime],
       !.verification = IF @ = << >> THEN @ ELSE [@ EXCEPT !.finished_at = NoTime],
       !.preflight = IF @ = << >> THEN @ ELSE [@ EXCEPT !.checked_at = NoTime]]

C26_RoundTrip ==
    LET value == PyRecord(contract)
        text == json_dumps(value)
        reparsed == json_loads(text)
    IN  /\ reparsed = value
        /\ json_dumps(reparsed) = text

\* a document with a preflight report and a verification report, an asset
\* with an error record and fields that are None
C26_Witness ==
    /\ contract.verification # << >> /\ contract.preflight # << >>
    /\ Len(contract.tasks) = 2
    /\ \E i \in AssetsOf(contract) :
          /\ contract.assets[i].error = Boom
          /\ contract.assets[i].corrupt = Null
          /\ contract.assets[i].local_path = NoLoc
    /\ Len(json_dumps(PyRecord(contract))) > 300

C27_AssetIds(c) == {c.assets[i].asset_id : i \in AssetsOf(c)}

C27_TaskIds(c) == {c.tasks[p].task_id : p \in TasksOf(c)}

\* C27: no invocation of record-produced, a task mark, preflight or finalize
\* removes an asset id or a task id from the document, and after a finalize
\* every asset that was not found to exist is in the document with one of the
\* statuses missing, unknown, failed, expected, produced.
C27_NeverDeleted ==
    [][/\ C27_AssetIds(contract) \subseteq C27_AssetIds(contract')
       /\ C27_TaskIds(contract) \subseteq C27_TaskIds(contract')
       /\ lastOp'.cmd = "finalize" =>
             \A i \in AssetsOf(contract') :
                contract'.assets[i].exists # T =>
                   contract'.assets[i].status \in
                      {"missing", "unknown", "failed", "expected", "produced"}]_vars

\* a finalize after a record-produced that added a task and an asset: one
\* asset was looked for and not found and is missing, another could not be
\* looked for and is unknown
C27_Witness ==
    /\ lastOp.cmd = "finalize"
    /\ \E i \in AssetsOf(contract) :
          contract.assets[i].exists = F /\ contract.assets[i].status = "missing"
    /\ \E i \in AssetsOf(contract) :
          contract.assets[i].exists = Null /\ contract.assets[i].status = "unknown"
    /\ \E i \in AssetsOf(contract) : ~contract.assets[i].expected

\* the ids of the required assets of c with the given status
C28_RequiredWith(c, status) ==
    {c.assets[i].asset_id :
        i \in {k \in AssetsOf(c) : c.assets[k].required /\ c.assets[k].status = status}}

\* C28: in the verification report of a finalize, missing_required_asset_ids
\* holds exactly the required assets with status missing,
\* corrupt_required_asset_ids exactly those with status corrupt,
\* unverified_required_asset_ids exactly those with status unknown, and no id
\* is in two of the lists.
C28_ListsExact ==
    lastOp.cmd = "finalize" =>
        LET v == contract.verification
        IN  /\ Range(v.missing_required_asset_ids) = C28_RequiredWith(contract, "missing")
            /\ Range(v.corrupt_required_asset_ids) = C28_RequiredWith(contract, "corrupt")
            /\ Range(v.unverified_required_asset_ids) = C28_RequiredWith(contract, "unknown")
            /\ Range(v.missing_required_asset_ids)
                  \cap Range(v.corrupt_required_asset_ids) = {}
            /\ Range(v.missing_required_asset_ids)
                  \cap Range(v.unverified_required_asset_ids) = {}
            /\ Range(v.corrupt_required_asset_ids)
                  \cap Range(v.unverified_required_asset_ids) = {}

\* values of --status: a status, the same with blanks around it, a blank
C29_Overrides == {"ARCHIVED", " ARCHIVED ", " "}

\* the finalize of c at the next reading of the clock with --status status
C29_Finalized(c, env, args, copied, status) ==
    _cmd_finalize(c, env, [args EXCEPT !.status = status], copied, now + 1)

\* all uploads of the finalize succeed
C29_Copied(c, args) == [dest \in UploadDests(c, args) |-> TRUE]

\* C29: a finalize with a run-status override writes the override as the run
\* status, whatever the task and asset statuses are, and everything else of
\* the document (asset statuses, task statuses, the verification report) as
\* the finalize without the override does.
C29_OverrideWins ==
    OpsDone < MaxOps =>
        \A args \in FinalizeArgs, env \in Envs(contract.assets),
           override \in C29_Overrides :
            LET with == C29_Finalized(contract, env, args, C29_Copied(contract, args),
                                      override)
                without == C29_Finalized(contract, env, args,
                                         C29_Copied(contract, args), "")
            IN  /\ with.contract.run.status = override
                /\ with.contract = [without.contract EXCEPT !.run.status = override]

\* C29 amended: a finalize with a run-status override that is not blank writes
\* the override without the whitespace around it as the run status, whatever
\* the task and asset statuses are, and everything else of the document as the
\* finalize without the override does.
C29_StrippedOverrideWins ==
    OpsDone < MaxOps =>
        \A args \in FinalizeArgs, env \in Envs(contract.assets),
           override \in {status \in C29_Overrides : Strip(status) # ""} :
            LET with == C29_Finalized(contract, env, args, C29_Copied(contract, args),
                                      override)
                without == C29_Finalized(contract, env, args,
                                         C29_Copied(contract, args), "")
            IN  /\ with.contract.run.status = Strip(override)
                /\ with.contract =
                      [without.contract EXCEPT !.run.status = Strip(override)]
                /\ with.rc = without.rc

\* a finalize with --status ARCHIVED after a task was marked failed: the run
\* is ARCHIVED, the task is still failed and a required asset is listed
C29_Witness ==
    /\ lastOp.cmd = "finalize" /\ lastOp.status = "ARCHIVED"
    /\ contract.run.status = "ARCHIVED"
    /\ \E p \in TasksOf(contract) : contract.tasks[p].status = "failed"
    /\ Len(contract.verification.missing_required_asset_ids) > 0

\* C30: once the finished_at of a task is set, no later task mark and no
\* finalize changes its value.
C30_StampedOnce ==
    [][\A p \in TasksOf(contract) :
          contract.tasks[p].finished_at # NoTime =>
             \A q \in TasksOf(contract') :
                contract'.tasks[q].task_id = contract.tasks[p].task_id =>
                   contract'.tasks[q].finished_at = contract.tasks[p].finished_at]_vars

\* whether the task lists no required asset of c in its asset_ids
C31_NoRequired(c, task) ==
    \A i \in AssetsOf(c) :
        c.assets[i].asset_id \in Range(task.asset_ids) => ~c.assets[i].required

\* C31: a finalize turns a task that lists no required asset into succeeded
\* when its status was empty, expected or running, and leaves the status of
\* such a task as it was otherwise.
C31_DefaultSucceeded ==
    [][lastOp'.cmd = "finalize" =>
          \A p \in TasksOf(contract), q \in TasksOf(contract') :
             (/\ contract'.tasks[q].task_id = contract.tasks[p].task_id
              /\ C31_NoRequired(contract', contract'.tasks[q]))
                => contract'.tasks[q].status =
                      (IF contract.tasks[p].status \in {"", "expected", "running"}
                       THEN "succeeded" ELSE contract.tasks[p].status)]_vars

\* a finalize made a running task without required assets succeeded and
\* stamped it
C31_Witness ==
    /\ lastOp.cmd = "finalize"
    /\ \E q \in TasksOf(contract) :
          /\ C31_NoRequired(contract, contract.tasks[q])
          /\ contract.tasks[q].status = "succeeded"
          /\ contract.tasks[q].started_at # NoTime
          /\ contract.tasks[q].finished_at = now

\* C32: after a preflight, the status of every input asset is what the
\* precedence of finalize gives for its error record, existence, corruption,
\* produced flag and location.
C32_PreflightPrecedence ==
    lastOp.cmd = "preflight" =>
        \A i \in InputPositions(contract.assets) :
            contract.assets[i].status =
                AssetStatus(contract.assets[i], contract.assets[i].exists,
                            contract.assets[i].corrupt)

\* the assets of c whose existence is decided by their object-storage glob
C33_Globbed(c) ==
    {i \in AssetsOf(c) :
        /\ c.assets[i].gcs_glob # NoLoc
        /\ c.assets[i].local_path = NoLoc /\ c.assets[i].local_glob = NoLoc
        /\ ~(c.assets[i].uri # NoLoc /\ StartsWith(c.assets[i].uri, GS))}

\* what a listing can answer: objects, nothing with exit code 0, "matched no
\* objects", no gsutil, another failure
C33_Answers == {"present", "absent", "no_match", "no_backend", "backend_error"}

\* the asset after the asset loop of a finalize in which the listing answers w
C33_Finalized(asset, w) ==
    FinalizeAsset(asset, [w |-> w, meta |-> "unreadable"], TRUE).asset

\* C33: for an asset checked through its object-storage glob, a listing that
\* returns nothing or reports that no objects matched gives existence false
\* and status missing; a listing that fails otherwise, or a backend that is
\* not there, gives existence unknown with a failure reason and status
\* unknown.
C33_NeverConfused ==
    \A i \in C33_Globbed(contract), w \in C33_Answers :
        LET r == _asset_exists(contract.assets[i], w)
            status == C33_Finalized(contract.assets[i], w).status
        IN  /\ w \in {"absent", "no_match"} =>
                 r.exists = F /\ r.reason = "gcs_glob" /\ status = "missing"
            /\ w \in {"no_backend", "backend_error"} =>
                 /\ r.exists = Null
                 /\ r.reason \in {"gsutil_unavailable", "gsutil_ls_failed"}
                 /\ status = "unknown"

\* C33 amended: the same, the status being missing, respectively unknown, for
\* an asset that carries no error record, and failed for one that does.
C33_NeverConfusedUnlessFailed ==
    \A i \in C33_Globbed(contract), w \in C33_Answers :
        LET r == _asset_exists(contract.assets[i], w)
            status == C33_Finalized(contract.assets[i], w).status
            failed == Truthy(contract.assets[i].error)
        IN  /\ w \in {"absent", "no_match"} =>
                 /\ r.exists = F /\ r.reason = "gcs_glob"
                 /\ status = (IF failed THEN "failed" ELSE "missing")
            /\ w \in {"no_backend", "backend_error"} =>
                 /\ r.exists = Null
                 /\ r.reason \in {"gsutil_unavailable", "gsutil_ls_failed"}
                 /\ status = (IF failed THEN "failed" ELSE "unknown")

\* a finalize listed the glob of an asset and found nothing: existence false
\* with reason gcs_glob, status missing
C33_Witness ==
    /\ lastOp.cmd = "finalize"
    /\ \E i \in C33_Globbed(contract) :
          /\ contract.assets[i].exists = F
          /\ contract.assets[i].exists_reason = "gcs_glob"
          /\ contract.assets[i].status = "missing"

\* C34: after a finalize, an asset has a corruption value of true or false
\* only if the finalize audited corruption, the asset is of kind metadata and
\* it was found to exist; every other asset has no corruption value, and only
\* an existing metadata asset has status corrupt.
C34_AuditedOnly ==
    lastOp.cmd = "finalize" =>
        \A i \in AssetsOf(contract) :
            LET asset == contract.assets[i]
                audited == /\ lastOp.audit_corruption
                           /\ asset.kind = "metadata" /\ asset.exists = T
            IN  /\ asset.corrupt \in {T, F} => audited
                /\ ~audited => asset.corrupt = Null /\ asset.corrupt_reason = Null
                /\ asset.status = "corrupt" =>
                      asset.kind = "metadata" /\ asset.exists = T

\* the second invocation was a finalize without the audit: an existing
\* metadata asset has no corruption value and is ok
C34_Witness ==
    /\ lastOp.cmd = "finalize" /\ ~lastOp.audit_corruption /\ OpsDone = 2
    /\ \E i \in AssetsOf(contract) :
          /\ contract.assets[i].kind = "metadata" /\ contract.assets[i].exists = T
          /\ contract.assets[i].corrupt = Null /\ contract.assets[i].status = "ok"
    /\ contract.verification.finished_at = now

\* contents of a metadata asset the audit cannot use: unreadable, larger than
\* max_bytes, JSON that is not an object, an object with neither marker
C35_Failures == {"unreadable", "oversized", "not_a_dict", "no_marker"}

\* the answers of the backends in which asset i exists and its content is meta
C35_Envs(c, i, meta) ==
    {[env EXCEPT ![i].meta = meta] :
        env \in {e \in Envs(c.assets) : e[i].w = "present" /\ e[i].meta = "unreadable"}}

\* the finalize commands that audit corruption
C35_Args == {args \in FinalizeArgs : args.audit_corruption}

\* the asset of c with that id
C35_Asset(c, asset_id) == c.assets[AssetPos(c.assets, asset_id)]

\* C35: when the content of an existing metadata asset cannot be read or
\* parsed or holds neither marker, the finalize records no corruption value
\* for it, gives it status ok, writes the document and ends as it would
\* without the failure (a non-zero exit code in strict mode only).
C35_BestEffort ==
    \A i \in {k \in AssetsOf(contract) : contract.assets[k].kind = "metadata"},
       meta \in C35_Failures, args \in C35_Args :
        \A env \in C35_Envs(contract, i, meta) :
            LET r == _cmd_finalize(contract, env, args,
                                   [dest \in UploadDests(contract, args) |-> TRUE],
                                   now + 1)
                asset == C35_Asset(r.contract, contract.assets[i].asset_id)
            IN  /\ asset.exists = T
                /\ asset.corrupt = Null /\ asset.corrupt_reason = Null
                /\ asset.status = "ok"
                /\ r.contract.verification.finished_at = now + 1
                /\ r.contract.run.completed_at = now + 1
                /\ r.rc # 0 => args.strict

\* C35 amended: the same, the status being ok for an asset that carries no
\* error record and failed for one that does.
C35_BestEffortUnlessFailed ==
    \A i \in {k \in AssetsOf(contract) : contract.assets[k].kind = "metadata"},
       meta \in C35_Failures, args \in C35_Args :
        \A env \in C35_Envs(contract, i, meta) :
            LET r == _cmd_finalize(contract, env, args,
                                   [dest \in UploadDests(contract, args) |-> TRUE],
                                   now + 1)
                asset == C35_Asset(r.contract, contract.assets[i].asset_id)
            IN  /\ asset.exists = T
                /\ asset.corrupt = Null /\ asset.corrupt_reason = Null
                /\ asset.status =
                      (IF Truthy(contract.assets[i].error) THEN "failed" ELSE "ok")
                /\ r.contract.verification.finished_at = now + 1
                /\ r.contract.run.completed_at = now + 1
                /\ r.rc # 0 => args.strict

\* a finalize with the audit found a metadata asset without error record and
\* could not use its content: no corruption value, status ok, document written
C35_Witness ==
    /\ lastOp.cmd = "finalize" /\ lastOp.audit_corruption /\ lastOp.rc = 0
    /\ contract.verification.finished_at = now
    /\ \E i \in AssetsOf(contract) :
          /\ contract.assets[i].kind = "metadata" /\ contract.assets[i].exists = T
          /\ contract.assets[i].error = NoError
          /\ contract.assets[i].corrupt = Null /\ contract.assets[i].status = "ok"

\* the canonical locations of the assets of c found to exist: the declared
\* path and uri, normalised, and what the location check matched
C36_Canonical(c) ==
    UNION {(IF c.assets[i].local_path # NoLoc
            THEN {_normalize_local_path(c.assets[i].local_path)} ELSE {})
           \cup (IF c.assets[i].uri # NoLoc
                 THEN {_normalize_gs_uri(c.assets[i].uri)} ELSE {})
           \cup Range(c.assets[i].matched_outputs) :
              i \in {k \in AssetsOf(c) : c.assets[k].exists = T}}

\* what the scans can find: everything, the stray file alone, nothing
C36_Scans == {Scanned, {Stray}, {}}

\* C36: the unexpected outputs a finalize writes are the discovered locations
\* that are not a canonical location of an asset found to exist in that pass.
C36_Drift ==
    OpsDone < MaxOps =>
        \A args \in FinalizeArgs, env \in Envs(contract.assets),
           discovered \in C36_Scans :
            LET r == _cmd_finalize(contract, env,
                                   [args EXCEPT !.discovered = discovered],
                                   [dest \in UploadDests(contract, args) |-> TRUE],
                                   now + 1)
                v == r.contract.verification
            IN  /\ Range(v.unexpected_outputs)
                      = discovered \ C36_Canonical(r.contract)
                /\ v.unexpected_outputs_count = Len(v.unexpected_outputs)
                /\ v.unexpected_outputs_count
                      = Cardinality(discovered \ C36_Canonical(r.contract))

\* a finalize that scanned: the stray file is listed, the file of an asset
\* found to exist is not
C36_Witness ==
    /\ lastOp.cmd = "finalize"
    /\ Stray \in Range(contract.verification.unexpected_outputs)
    /\ PathX \notin Range(contract.verification.unexpected_outputs)
    /\ \E i \in AssetsOf(contract) :
          /\ contract.assets[i].exists = T
          /\ contract.assets[i].local_path # NoLoc
          /\ _normalize_local_path(contract.assets[i].local_path) = PathX
    /\ UriF \in Range(contract.verification.unexpected_outputs)

\* C37: after a finalize every task has a terminal status and a finished_at.
C37_AllTerminal ==
    lastOp.cmd = "finalize" =>
        \A p \in TasksOf(contract) :
            /\ contract.tasks[p].status \in TerminalStatuses
            /\ contract.tasks[p].finished_at # NoTime

\* the tasks of c that list the asset id
C38_Listing(c, asset_id) ==
    {p \in TasksOf(c) : asset_id \in Range(c.tasks[p].asset_ids)}

\* C38: in every document, each asset id is in the asset_ids of exactly one
\* task, the task the asset names as its task_id, and no asset_ids holds an
\* id twice.
C38_OneOwner ==
    /\ \A i \in AssetsOf(contract) :
          /\ Cardinality(C38_Listing(contract, contract.assets[i].asset_id)) = 1
          /\ \A p \in C38_Listing(contract, contract.assets[i].asset_id) :
                contract.tasks[p].task_id = contract.assets[i].task_id
    /\ \A p \in TasksOf(contract) :
          Cardinality(Range(contract.tasks[p].asset_ids))
              = Len(contract.tasks[p].asset_ids)

\* an asset without the fields a preflight may set
C39_Kept(asset) ==
    [asset EXCEPT !.exists = Null, !.exists_reason = Null,
                  !.matched_outputs = << >>, !.status = ""]

\* C39: a preflight changes the existence, reason, matched locations and
\* status of input assets and the preflight report, and nothing else: the
\* other assets, the tasks, the run and the verification report stay as they
\* were.
C39_PreflightFrame ==
    [][lastOp'.cmd = "preflight" =>
          /\ contract'.tasks = contract.tasks
          /\ contract'.run = contract.run
          /\ contract'.verification = contract.verification
          /\ contract'.schema_version = contract.schema_version
          /\ Len(contract'.assets) = Len(contract.assets)
          /\ \A i \in AssetsOf(contract) :
                IF contract.assets[i].role = "input"
                THEN C39_Kept(contract'.assets[i]) = C39_Kept(contract.assets[i])
                ELSE contract'.assets[i] = contract.assets[i]]_vars

\* a preflight after a finalize: the report of the finalize and an output
\* asset it had found are still there, an input asset was looked for again
C39_Witness ==
    /\ lastOp.cmd = "preflight" /\ contract.preflight # << >>
    /\ contract.verification # << >>
    /\ contract.preflight.checked_at > contract.verification.finished_at
    /\ \E i \in AssetsOf(contract) :
          contract.assets[i].role # "input" /\ contract.assets[i].status = "ok"
    /\ \E i \in AssetsOf(contract) :
          /\ contract.assets[i].role = "input"
          /\ contract.assets[i].status = "missing"

\* the assets the last pass looked for: all of them for a finalize, the input
\* assets for a preflight
C40_Checked(c) ==
    IF lastOp.cmd = "finalize" THEN AssetsOf(c)
    ELSE IF lastOp.cmd = "preflight" THEN InputPositions(c.assets)
    ELSE {}

\* C40: after a preflight or a finalize, the matched locations stored for an
\* asset the pass looked for are at most 200 and are those of that pass: none
\* when the pass did not find the asset.
C40_FreshMatches ==
    \A i \in C40_Checked(contract) :
        /\ Len(contract.assets[i].matched_outputs) <= MatchedLimit
        /\ contract.assets[i].exists # T => contract.assets[i].matched_outputs = << >>

====
